---- MODULE Spec2Model ----
(***************************************************************************)
(* A model of memorydb: the serial executor (executor.ts), the index       *)
(* (indexes.ts) and the store with its cursor (index.ts, cursor.ts).       *)
(*                                                                         *)
(* Documents have two fields, _id and a.  A value is a record [arr, e]:    *)
(* undefined is [FALSE, <<>>], the number n is [FALSE, <<n>>] and an array *)
(* of numbers is [TRUE, elements].  Stored documents carry ref, the        *)
(* identity of the JavaScript object (the index compares documents with    *)
(* ===).                                                                   *)
(***************************************************************************)
EXTENDS Integers, Sequences, FiniteSets, TLC

\* ---- bounds of the model
MaxPushes == 4         \* Executor.push calls in one run of the executor alone
MaxMutations == 2      \* insert, update and remove calls in one run of the store
MaxFinds == 1          \* find calls in one run of the store
MaxIndexCalls == 1     \* direct ensureIndex / removeIndex calls in one run

\* ---- program constants
Concurrency == 1       \* async.queue(worker, 1)

Range(seq) == {seq[i] : i \in 1 .. Len(seq)}

\* ---- values and documents
Undef == [arr |-> FALSE, e |-> <<>>]
Num(n) == [arr |-> FALSE, e |-> <<n>>]
Arr(s) == [arr |-> TRUE, e |-> s]
\* new Date(t), t its getTime() in milliseconds
Date(t) == [arr |-> FALSE, e |-> <<2 + t>>]

\* keys of a tree, in the order of compareThings: 0 stands for the key
\* undefined, 1 and 2 are numbers, 3 and 4 the dates of time 1 and 2, 5 and
\* 6 stand for the arrays [1] and [2] (an element of an array value that is
\* itself an array)
UndefKey == 0
Keys == 0 .. 6
ArrayKeys == {5, 6}
DateKeys == {3, 4}
\* util.isDate(v) and v.getTime()
isDate(v) == ~v.arr /\ v.e # <<>> /\ v.e[1] \in DateKeys
getTime(v) == v.e[1] - 2
KeyOf(v) == IF v.e = <<>> THEN UndefKey ELSE v.e[1]

\* model.getDotValue for the top-level paths of the model: _id, a, and b, a
\* field no document of the model has
getDotValue(doc, fieldName) ==
  IF fieldName = "_id"
    THEN (IF doc._id = 0 THEN Undef ELSE Num(doc._id))
    ELSE IF fieldName = "b" THEN Undef
    ELSE doc.a

\* ---- indexes.ts

\* checkValueEquality: two indexed pointers are equal iff they are the same object
checkValueEquality(x, y) == x.ref = y.ref

\* projectForUnique(elt): null and arrays go to '$null', a number to
\* '$number' + elt
projectForUnique(elt) == IF elt \in ArrayKeys THEN <<"$null">> ELSE <<"$number", elt>>

\* _.uniq(key, projectForUnique): the first element of every projection class
RECURSIVE uniq(_)
uniq(s) ==
  IF s = <<>> THEN <<>>
  ELSE LET front == uniq(SubSeq(s, 1, Len(s) - 1))
           last == s[Len(s)]
       IN IF \E i \in 1 .. Len(front) : projectForUnique(front[i]) = projectForUnique(last)
            THEN front
            ELSE Append(front, last)

EmptyTree == [k \in Keys |-> <<>>]

\* tree.insert(key, value) of the AVL tree built with treeOptions {unique, ...}:
\* a unique tree refuses a key it already holds, a non-unique one appends the
\* value to the key's node
TreeInsert(tree, unique, k, doc) ==
  IF unique /\ tree[k] # <<>>
    THEN [ok |-> FALSE, tree |-> tree]
    ELSE [ok |-> TRUE, tree |-> [tree EXCEPT ![k] = Append(@, doc)]]

\* tree.delete(key, value): drops from the key's node the values equal to value
TreeDelete(tree, k, doc) ==
  [tree EXCEPT ![k] = SelectSeq(@, LAMBDA x : ~checkValueEquality(x, doc))]

\* new Index(options)
NewIndex(fieldName, unique, sparse) ==
  [fieldName |-> fieldName, unique |-> unique, sparse |-> sparse, tree |-> EmptyTree]

\* the loop of Index.insert over the distinct elements of an array key;
\* failingI is the position of the element the tree refused, 0 if none
RECURSIVE insertKeys(_, _, _, _, _)
insertKeys(tree, unique, keys, doc, i) ==
  IF i > Len(keys) THEN [failingI |-> 0, tree |-> tree]
  ELSE LET r == TreeInsert(tree, unique, keys[i], doc)
       IN IF ~r.ok THEN [failingI |-> i, tree |-> tree]
          ELSE insertKeys(r.tree, unique, keys, doc, i + 1)

\* tree.delete of keys[1..n]
RECURSIVE deleteKeys(_, _, _, _)
deleteKeys(tree, keys, doc, n) ==
  IF n = 0 THEN tree
  ELSE TreeDelete(deleteKeys(tree, keys, doc, n - 1), keys[n], doc)

\* Index.insert(doc) for one document: [ok, idx]; ok = FALSE is the thrown
\* unique violation
Index_insert(idx, doc) ==
  LET key == getDotValue(doc, idx.fieldName)
  IN IF key = Undef /\ idx.sparse THEN [ok |-> TRUE, idx |-> idx]
     ELSE IF ~key.arr
       THEN LET r == TreeInsert(idx.tree, idx.unique, KeyOf(key), doc)
            IN [ok |-> r.ok, idx |-> [idx EXCEPT !.tree = r.tree]]
       ELSE LET keys == uniq(key.e)
                r == insertKeys(idx.tree, idx.unique, keys, doc, 1)
            IN IF r.failingI = 0
                 THEN [ok |-> TRUE, idx |-> [idx EXCEPT !.tree = r.tree]]
                 ELSE [ok |-> FALSE,
                       idx |-> [idx EXCEPT !.tree = deleteKeys(r.tree, keys, doc, r.failingI - 1)]]

\* Index.remove(doc) for one document
Index_remove(idx, doc) ==
  LET key == getDotValue(doc, idx.fieldName)
  IN IF key = Undef /\ idx.sparse THEN idx
     ELSE IF ~key.arr
       THEN [idx EXCEPT !.tree = TreeDelete(idx.tree, KeyOf(key), doc)]
       ELSE LET keys == uniq(key.e)
            IN [idx EXCEPT !.tree = deleteKeys(idx.tree, keys, doc, Len(keys))]

\* a loop of this.insert(docs[i]) that ends at the first throw; failingI is
\* the position of the document that threw, 0 if none.  insertedDoc is the
\* loop after docs[i] went through this.insert with outcome r
RECURSIVE insertDocs(_, _, _)
insertedDoc(r, docs, i) ==
  IF ~r.ok THEN [failingI |-> i, idx |-> r.idx]
  ELSE insertDocs(r.idx, docs, i + 1)

insertDocs(idx, docs, i) ==
  IF i > Len(docs) THEN [failingI |-> 0, idx |-> idx]
  ELSE insertedDoc(Index_insert(idx, docs[i]), docs, i)

\* this.remove(docs[i]) for i in 1..n
RECURSIVE removeDocs(_, _, _)
removeDocs(idx, docs, n) ==
  IF n = 0 THEN idx
  ELSE Index_remove(removeDocs(idx, docs, n - 1), docs[n])

\* the end of Index.insertMultipleDocs(docs), r the outcome of its loop: after
\* a throw the documents inserted so far are removed
rollbackInsert(r, docs) ==
  IF r.failingI = 0 THEN [ok |-> TRUE, idx |-> r.idx]
  ELSE [ok |-> FALSE, idx |-> removeDocs(r.idx, docs, r.failingI - 1)]

\* Index.insertMultipleDocs(docs)
Index_insertMultipleDocs(idx, docs) == rollbackInsert(insertDocs(idx, docs, 1), docs)

oldDocs(pairs) == [i \in 1 .. Len(pairs) |-> pairs[i].oldDoc]
newDocs(pairs) == [i \in 1 .. Len(pairs) |-> pairs[i].newDoc]

\* the end of Index.updateMultipleDocs(pairs), r the outcome of the loop that
\* inserts the new documents: after a throw the new documents inserted so far
\* are removed and the old ones inserted again.  That re-insertion is a plain
\* loop: an insert that throws there leaves the loop
rollbackUpdate(r, pairs) ==
  IF r.failingI = 0 THEN [ok |-> TRUE, idx |-> r.idx]
  ELSE [ok |-> FALSE,
        idx |-> insertDocs(removeDocs(r.idx, newDocs(pairs), r.failingI - 1),
                           oldDocs(pairs), 1).idx]

\* an update of the pairs one at a time, each as Index.update(oldDoc, newDoc)
\* does it: the old document removed and the new one inserted before the
\* next pair is looked at
RECURSIVE Index_updateOneByOne(_, _)
Index_updateOneByOne(idx, pairs) ==
  IF pairs = <<>> THEN [ok |-> TRUE, idx |-> idx]
  ELSE IF ~Index_insert(Index_remove(idx, pairs[1].oldDoc), pairs[1].newDoc).ok
    THEN [ok |-> FALSE, idx |-> idx]
    ELSE Index_updateOneByOne(
           Index_insert(Index_remove(idx, pairs[1].oldDoc), pairs[1].newDoc).idx,
           Tail(pairs))

\* Index.updateMultipleDocs(pairs): the old documents are removed, then the
\* new ones inserted
Index_updateMultipleDocs(idx, pairs) ==
  rollbackUpdate(
    insertDocs(removeDocs(idx, oldDocs(pairs), Len(pairs)), newDocs(pairs), 1), pairs)

\* Index.revertUpdate(pairs): update with every pair swapped
Index_revertUpdate(idx, pairs) ==
  Index_updateMultipleDocs(idx,
    [i \in 1 .. Len(pairs) |-> [oldDoc |-> pairs[i].newDoc, newDoc |-> pairs[i].oldDoc]])

\* the data of the nodes with keys[i..], in key order
RECURSIVE nodesFrom(_, _)
nodesFrom(tree, k) ==
  IF k \notin Keys THEN <<>> ELSE tree[k] \o nodesFrom(tree, k + 1)

\* Index.getMatching(value) for a value that is not an array: tree.search
Index_getMatching(idx, k) == idx.tree[k]

\* Index.getMatching(value) for an array: the documents found under the
\* elements are stored in an object under their _id, the later one replacing
\* the earlier, and read back in the order of Object.keys (_id ascending)
RECURSIVE byId(_)
byId(docs) ==
  IF docs = <<>> THEN <<>>
  ELSE LET first == CHOOSE id \in {d._id : d \in Range(docs)} :
                      \A d \in Range(docs) : id <= d._id
           found == SelectSeq(docs, LAMBDA d : d._id = first)
       IN <<found[Len(found)]>> \o byId(SelectSeq(docs, LAMBDA d : d._id # first))

RECURSIVE searchAll(_, _)
searchAll(idx, values) ==
  IF values = <<>> THEN <<>>
  ELSE Index_getMatching(idx, Head(values)) \o searchAll(idx, Tail(values))

Index_getMatchingIn(idx, values) == byId(searchAll(idx, values))

\* Index.getBetweenBounds({$gte: k}): the nodes with a key >= k, in key order
Index_getBetweenBounds(idx, k) == nodesFrom(idx.tree, k)

\* Index.getAll(): every node's data, in key order
Index_getAll(idx) == nodesFrom(idx.tree, UndefKey)

\* ---- model.ts, as the specification describes it

\* the queries of the model:
\*   all    {}                          eq     {field: v}
\*   gte    {a: {$gte: v}}              where  {$where: f}, f a function of the
\*   caller that throws on the document with _id v and returns true otherwise
\*   in     {a: {$in: vs}}, vs a list of numbers
QAll == [kind |-> "all", field |-> "", v |-> 0, vs |-> <<>>]
QEq(f, n) == [kind |-> "eq", field |-> f, v |-> n, vs |-> <<>>]
QGte(n) == [kind |-> "gte", field |-> "a", v |-> n, vs |-> <<>>]
QWhere(n) == [kind |-> "where", field |-> "_id", v |-> n, vs |-> <<>>]
QIn(vs) == [kind |-> "in", field |-> "a", v |-> 0, vs |-> vs]

\* model.match(doc, query): "yes", "no" or "throw".  A value that is an array
\* matches when one of its elements does
match(doc, query) ==
  LET val == getDotValue(doc, query.field)
      elems == {val.e[i] : i \in 1 .. Len(val.e)}
  IN CASE query.kind = "all" -> "yes"
       [] query.kind = "eq" -> IF query.v \in elems THEN "yes" ELSE "no"
       [] query.kind = "gte" -> IF \E x \in elems : x >= query.v THEN "yes" ELSE "no"
       [] query.kind = "in" -> IF elems \cap Range(query.vs) # {} THEN "yes" ELSE "no"
       [] OTHER -> IF doc._id = query.v THEN "throw" ELSE "yes"

\* the updates of the model: set is {$set: {a: v}}, replace is the document {a: v}
\* model.modify(doc, upd): a fresh object with the _id of doc
modify(doc, upd, ref) == [_id |-> doc._id, a |-> upd.v, ref |-> ref]

\* ---- index.ts: the store.  indexes is the sequence of the store's indexes in
\* the order of Object.keys(this.indexes)

HasIndex(ixs, f) == \E i \in 1 .. Len(ixs) : ixs[i].fieldName = f
IndexAt(ixs, f) == ixs[CHOOSE i \in 1 .. Len(ixs) : ixs[i].fieldName = f]

\* getAllData(): this.indexes._id.getAll(); a TypeError (ok = FALSE) when the
\* store has no _id index
getAllData(ixs) ==
  IF HasIndex(ixs, "_id")
    THEN [ok |-> TRUE, docs |-> Index_getAll(IndexAt(ixs, "_id"))]
    ELSE [ok |-> FALSE, docs |-> <<>>]

\* this.indexes[keys[i]].remove(doc) for i in 1..n
removeFromFirst(ixs, doc, n) ==
  [i \in 1 .. Len(ixs) |-> IF i <= n THEN Index_remove(ixs[i], doc) ELSE ixs[i]]

\* the loop of addToIndexes.  addedToIndex is the loop after index i went
\* through insert(doc) with outcome r: when the index threw, the document is
\* removed from the indexes 1..i-1
RECURSIVE addLoop(_, _, _)
addedToIndex(ixs, doc, i, r) ==
  IF ~r.ok
    THEN [ok |-> FALSE, ixs |-> removeFromFirst([ixs EXCEPT ![i] = r.idx], doc, i - 1)]
    ELSE addLoop([ixs EXCEPT ![i] = r.idx], doc, i + 1)

addLoop(ixs, doc, i) ==
  IF i > Len(ixs) THEN [ok |-> TRUE, ixs |-> ixs]
  ELSE addedToIndex(ixs, doc, i, Index_insert(ixs[i], doc))

\* addToIndexes(doc): [ok, ixs]
addToIndexes(ixs, doc) == addLoop(ixs, doc, 1)

\* removeFromIndexes(doc)
removeFromIndexes(ixs, doc) == removeFromFirst(ixs, doc, Len(ixs))

\* the rollback loop of updateIndexes: revertUpdate on the indexes i..n; a
\* revertUpdate that throws leaves the loop
RECURSIVE revertLoop(_, _, _, _)
revertedIndex(ixs, pairs, i, n, r) ==
  IF ~r.ok THEN [ixs EXCEPT ![i] = r.idx]
  ELSE revertLoop([ixs EXCEPT ![i] = r.idx], pairs, i + 1, n)

revertLoop(ixs, pairs, i, n) ==
  IF i > n THEN ixs
  ELSE revertedIndex(ixs, pairs, i, n, Index_revertUpdate(ixs[i], pairs))

\* the loop of updateIndexes over the indexes; when index i throws, the
\* indexes 1..i-1 are reverted
RECURSIVE updateLoop(_, _, _)
updatedIndex(ixs, pairs, i, r) ==
  IF ~r.ok
    THEN [ok |-> FALSE, ixs |-> revertLoop([ixs EXCEPT ![i] = r.idx], pairs, 1, i - 1)]
    ELSE updateLoop([ixs EXCEPT ![i] = r.idx], pairs, i + 1)

updateLoop(ixs, pairs, i) ==
  IF i > Len(ixs) THEN [ok |-> TRUE, ixs |-> ixs]
  ELSE updatedIndex(ixs, pairs, i, Index_updateMultipleDocs(ixs[i], pairs))

\* updateIndexes(pairs): [ok, ixs]
updateIndexes(ixs, pairs) == updateLoop(ixs, pairs, 1)

\* removeFromIndexes(preparedDocs[i]) for i in 1..n
RECURSIVE uncache(_, _, _)
uncache(ixs, docs, n) ==
  IF n = 0 THEN ixs
  ELSE removeFromIndexes(uncache(ixs, docs, n - 1), docs[n])

\* the loop of _insertMultipleDocsInCache.  cachedDoc is the loop after
\* preparedDocs[i] went through addToIndexes with outcome r: when it threw,
\* the documents 1..i-1 are removed from the indexes
RECURSIVE cacheLoop(_, _, _)
\* an _insertMultipleDocsInCache that leaves the documents 1..i-1 in place
cachedDocKept(docs, i, r) ==
  IF ~r.ok THEN [ok |-> FALSE, ixs |-> r.ixs]
  ELSE cacheLoop(r.ixs, docs, i + 1)

cachedDoc(docs, i, r) ==
  IF ~r.ok THEN [ok |-> FALSE, ixs |-> uncache(r.ixs, docs, i - 1)]
  ELSE cacheLoop(r.ixs, docs, i + 1)

cacheLoop(ixs, docs, i) ==
  IF i > Len(docs) THEN [ok |-> TRUE, ixs |-> ixs]
  ELSE cachedDoc(docs, i, addToIndexes(ixs, docs[i]))

\* _insertMultipleDocsInCache(preparedDocs): [ok, ixs]
insertMultipleDocsInCache(ixs, docs) == cacheLoop(ixs, docs, 1)

\* _insertInCache(preparedDoc): a list goes through
\* _insertMultipleDocsInCache, one document through addToIndexes
insertInCache(ixs, docs, isArray) ==
  IF isArray THEN insertMultipleDocsInCache(ixs, docs)
  ELSE addToIndexes(ixs, docs[1])

\* getCandidates(query), STEP 1: [ok, docs]; ok = FALSE is the TypeError of
\* getAllData
getCandidates(ixs, query) ==
  IF query.kind = "eq" /\ HasIndex(ixs, query.field)
    THEN [ok |-> TRUE, docs |-> Index_getMatching(IndexAt(ixs, query.field), query.v)]
  ELSE IF query.kind = "in" /\ HasIndex(ixs, query.field)
    THEN [ok |-> TRUE, docs |-> Index_getMatchingIn(IndexAt(ixs, query.field), query.vs)]
  ELSE IF query.kind = "gte" /\ HasIndex(ixs, query.field)
    THEN [ok |-> TRUE, docs |-> Index_getBetweenBounds(IndexAt(ixs, query.field), query.v)]
  ELSE getAllData(ixs)

\* ---- inputs of the model
AVals == {Undef, Num(2), Arr(<<>>), Arr(<<1, 2>>)}
\* the _id values of the model; customUtils.uid draws from the same set
AllIds == {1, 2}
\* _id 0 is a document without _id
InputDocs == [_id : {0} \cup AllIds, a : AVals]
Batches ==
  {<<d1, d2>> : d1 \in InputDocs, d2 \in InputDocs}
    \cup {<<[_id |-> i, a |-> Undef], [_id |-> j, a |-> Undef], [_id |-> k, a |-> Undef]>> :
            i \in AllIds, j \in AllIds, k \in AllIds}
Queries ==
  {QAll} \cup {QEq("_id", n) : n \in AllIds} \cup {QEq("a", n) : n \in 1 .. 2}
    \cup {QGte(1)} \cup {QWhere(n) : n \in AllIds} \cup {QIn(<<1, 2>>)}
Upds == [kind : {"set", "replace"}, v : {Num(2)}]
FieldNames == {"", "_id", "a"}

VARIABLES
  ready,       \* Executor.ready
  buffer,      \* Executor.buffer
  queue,       \* the tasks waiting in the async queue
  running,     \* the tasks the queue's worker is running, with their progress
  indexes,     \* MemoryDB.indexes
  nextId,      \* number of tasks pushed so far
  mutations,   \* number of insert, update and remove calls so far
  indexCalls,  \* number of direct ensureIndex / removeIndex calls so far
  enqLog,      \* history: the tasks in the order they entered the async queue
  startLog,    \* history: task ids in the order the worker started them
  doneLog,     \* history: task ids in the order the queue was told they are complete
  live,        \* history: the documents the callbacks so far reported stored
  pre,         \* history: indexes when the running task started
  cursor,      \* the Cursor object the client holds
  call,        \* history: the last call the client awaited, with what it got back
  ttlIndexes   \* MemoryDB.ttlIndexes: expireAfterSeconds by field name

vars == <<ready, buffer, queue, running, indexes, nextId, mutations, indexCalls,
          enqLog, startLog, doneLog, live, pre, cursor, call, ttlIndexes>>

store == <<indexes, mutations, indexCalls, live>>
history == <<startLog, doneLog, pre>>
client == <<cursor, call>>

\* this.ttlIndexes = {}
NoTtl == [f \in {} |-> 0]

\* no cursor was created yet, no call was awaited yet
NoCursor == [made |-> FALSE]
NoCall == [op |-> "none"]

\* new MemoryDB({inMemoryOnly: true, storage}): the constructor sets
\* executor.ready and creates the index on _id; autoload is not set, so no
\* loadDatabase task is queued.  What persistNewState answers is up to the
\* persistence collaborator: persistAck lets it succeed or fail
Init ==
  /\ ready = TRUE
  /\ buffer = <<>>
  /\ queue = <<>>
  /\ running = {}
  /\ indexes = <<NewIndex("_id", TRUE, FALSE)>>
  /\ nextId = 0
  /\ mutations = 0
  /\ indexCalls = 0
  /\ enqLog = <<>>
  /\ startLog = <<>>
  /\ doneLog = <<>>
  /\ live = {}
  /\ pre = <<>>
  /\ cursor = NoCursor
  /\ call = NoCall
  /\ ttlIndexes = NoTtl

\* ---- executor.ts

Ids(tasks) == [i \in 1 .. Len(tasks) |-> tasks[i].id]

\* a push that buffers every task while the executor is not ready
pushUnforced(task, forceQueuing) ==
  IF ready
    THEN /\ queue' = Append(queue, task)
         /\ enqLog' = Append(enqLog, task)
         /\ UNCHANGED <<ready, buffer>>
    ELSE /\ buffer' = Append(buffer, task)
         /\ UNCHANGED <<ready, queue, enqLog>>

\* Executor.push(task, forceQueuing)
push(task, forceQueuing) ==
  IF ready \/ forceQueuing
    THEN /\ queue' = Append(queue, task)
         /\ enqLog' = Append(enqLog, task)
         /\ UNCHANGED <<ready, buffer>>
    ELSE /\ buffer' = Append(buffer, task)
         /\ UNCHANGED <<ready, queue, enqLog>>

\* a processBuffer that queues the buffered tasks ahead of the queued ones
drainBufferFirst ==
  /\ ready' = TRUE
  /\ queue' = buffer \o queue
  /\ enqLog' = enqLog \o buffer
  /\ buffer' = <<>>

\* what Executor.processBuffer() does to the executor
drainBuffer ==
  /\ ready' = TRUE
  /\ queue' = queue \o buffer
  /\ enqLog' = enqLog \o buffer
  /\ buffer' = <<>>

\* Executor.processBuffer(), called from outside a task
processBuffer ==
  /\ drainBuffer
  /\ UNCHANGED <<running, nextId, store, history, client, ttlIndexes>>

\* an async queue that hands its worker the next task whatever is running
CanStartWhileRunning(op) ==
  /\ queue # <<>>
  /\ Head(queue).op = op

\* the async queue hands its worker the next task when fewer than
\* Concurrency tasks are running
CanStart(op) ==
  /\ queue # <<>>
  /\ Cardinality(running) < Concurrency
  /\ Head(queue).op = op

\* this.executor.push({this, fn, arguments}) of insert, update and remove.
\* The arguments of a queued task are read only when the worker runs it:
\* the model draws them there
pushMutation(op) ==
  /\ mutations < MaxMutations
  /\ mutations' = mutations + 1
  /\ nextId' = nextId + 1
  /\ push([id |-> nextId + 1, op |-> op, force |-> FALSE], FALSE)
  /\ UNCHANGED <<running, indexes, indexCalls, live, history, client, ttlIndexes>>

insert == pushMutation("insert")
update == pushMutation("update")
remove == pushMutation("remove")

\* find(query, callback): Cursor.exec pushes the task that runs _exec
find ==
  /\ nextId - mutations < MaxFinds
  /\ nextId' = nextId + 1
  /\ push([id |-> nextId + 1, op |-> "find", force |-> FALSE], FALSE)
  /\ UNCHANGED <<running, store, history, client, ttlIndexes>>

\* ---- the bodies of the tasks (index.ts, cursor.ts)

\* the objects the indexes and the reported documents hold
UsedRefs ==
  UNION {{d.ref : d \in Range(indexes[i].tree[k])} : i \in 1 .. Len(indexes), k \in Keys}
    \cup {d.ref : d \in live}

\* n objects that are none of used: deepCopy and modify allocate
RECURSIVE freshRefs(_, _)
freshRefs(used, n) ==
  IF n = 0 THEN <<>>
  ELSE LET r == CHOOSE x \in 1 .. Cardinality(used) + 1 :
                  x \notin used /\ \A y \in 1 .. x - 1 : y \in used
       IN <<r>> \o freshRefs(used \cup {r}, n - 1)

\* the _id values the _id index holds
IdsInUse(ixs) == {k \in AllIds : IndexAt(ixs, "_id").tree[k] # <<>>}

\* prepareDocumentForInsertion(newDoc): a deep copy of every document, with
\* the _id that createNewId drew (gen[i]) where the document has none
prepareDocumentForInsertion(docs, gen, refs) ==
  [i \in 1 .. Len(docs) |->
     [_id |-> IF docs[i]._id = 0 THEN gen[i] ELSE docs[i]._id,
      a |-> docs[i].a,
      ref |-> refs[i]]]

\* what a task has done when the worker returns from its fn: the function
\* that ended it, where the task is (pc), the error it passes to its callback,
\* the indexes it leaves, the documents it took out and the ones it put in
Outcome(fn, pc, err, ixs, olds, news) ==
  [fn |-> fn, pc |-> pc, err |-> err, ixs |-> ixs, olds |-> olds, news |-> news]

\* _insert(newDoc, cb) up to the call of persistNewState; cached is its end,
\* r the outcome of this._insertInCache(preparedDoc).  createNewId reads
\* this.indexes._id: a TypeError inside the try when there is no _id index
cached(r, prepared) ==
  IF ~r.ok THEN Outcome("_insert", "called", "uniqueViolated", r.ixs, <<>>, <<>>)
  ELSE Outcome("_insert", "persist", "none", r.ixs, <<>>, prepared)

insertBody(ixs, isArray, docs, gen, refs) ==
  IF (\E i \in 1 .. Len(docs) : docs[i]._id = 0) /\ ~HasIndex(ixs, "_id")
    THEN Outcome("_insert", "called", "typeError", ixs, <<>>, <<>>)
    ELSE cached(insertInCache(ixs, prepareDocumentForInsertion(docs, gen, refs), isArray),
                prepareDocumentForInsertion(docs, gen, refs))

\* the filter loop of Cursor._exec with limit 1: "throw", "found" or "none"
RECURSIVE firstMatch(_, _, _)
firstMatch(cands, query, i) ==
  IF i > Len(cands) THEN "none"
  ELSE LET m == match(cands[i], query)
       IN IF m = "throw" THEN "throw"
          ELSE IF m = "yes" THEN "found"
          ELSE firstMatch(cands, query, i + 1)

\* the document an upsert inserts: upd itself when it has no modifier, else
\* the modifiers applied to the query stripped of its operators
toBeInserted(query, upd) ==
  IF upd.kind = "replace" THEN [_id |-> 0, a |-> upd.v]
  ELSE [_id |-> IF query.kind = "eq" /\ query.field = "_id" THEN query.v ELSE 0,
        a |-> upd.v]

\* the modifications of _update: the documents that match, all of them with
\* multi, else the first, each paired with its modified copy
modifications(matched, upd, multi, used) ==
  [i \in 1 .. (IF multi \/ matched = <<>> THEN Len(matched) ELSE 1) |->
     [oldDoc |-> matched[i],
      newDoc |-> modify(matched[i], upd, freshRefs(used, i)[i])]]

\* the end of _update, r the outcome of this.updateIndexes(modifications)
committed(r, pairs) ==
  IF ~r.ok THEN Outcome("_update", "called", "uniqueViolated", r.ixs, <<>>, <<>>)
  ELSE Outcome("_update", "persist", "none", r.ixs, oldDocs(pairs), newDocs(pairs))

\* this.updateIndexes(modifications) in the try block of _update
commitUpdate(ixs, pairs) == committed(updateIndexes(ixs, pairs), pairs)

\* the second step of _update: the candidates that match (all of them with
\* multi, else the first) paired with their modified copies, committed by
\* updateIndexes
performUpdate(ixs, query, upd, multi, used) ==
  LET c == getCandidates(ixs, query)
  IN IF ~c.ok THEN Outcome("_update", "crashed", "typeError", ixs, <<>>, <<>>)
     ELSE IF \E i \in 1 .. Len(c.docs) : match(c.docs[i], query) = "throw"
       THEN Outcome("_update", "called", "matchError", ixs, <<>>, <<>>)
     ELSE commitUpdate(ixs,
            modifications(SelectSeq(c.docs, LAMBDA d : match(d, query) = "yes"),
                          upd, multi, used))

\* the first step of _update finds nothing to update and inserts a document
upserts(ixs, query, upsert) ==
  /\ upsert
  /\ getCandidates(ixs, query).ok
  /\ firstMatch(getCandidates(ixs, query).docs, query, 1) = "none"

\* _update(query, updateQuery, {multi, upsert}, cb) up to the call of
\* persistNewState.  With upsert the cursor of the first step looks for one
\* match: when it finds none the document is inserted; when it finds one the
\* second step runs, and when it fails the second step fails the same way
updateBody(ixs, query, upd, multi, upsert, gen, used) ==
  IF upserts(ixs, query, upsert)
    THEN insertBody(ixs, FALSE, <<toBeInserted(query, upd)>>, <<gen>>, freshRefs(used, 1))
    ELSE performUpdate(ixs, query, upd, multi, used)

\* candidates.forEach of _remove: a throw of match leaves the loop
RECURSIVE removeLoop(_, _, _, _, _, _)
removeLoop(ixs, cands, query, multi, i, removed) ==
  IF i > Len(cands) THEN [err |-> "none", ixs |-> ixs, removed |-> removed]
  ELSE LET m == match(cands[i], query)
       IN IF m = "throw" THEN [err |-> "matchError", ixs |-> ixs, removed |-> removed]
          ELSE IF m = "yes" /\ (multi \/ removed = <<>>)
            THEN removeLoop(removeFromIndexes(ixs, cands[i]), cands, query, multi, i + 1,
                            Append(removed, cands[i]))
            ELSE removeLoop(ixs, cands, query, multi, i + 1, removed)

\* _remove(query, {multi}, cb) up to the call of persistNewState
removeBody(ixs, query, multi) ==
  LET c == getCandidates(ixs, query)
      r == removeLoop(ixs, c.docs, query, multi, 1, <<>>)
  IN IF ~c.ok THEN Outcome("_remove", "crashed", "typeError", ixs, <<>>, <<>>)
     ELSE IF r.err # "none" THEN Outcome("_remove", "called", r.err, r.ixs, r.removed, <<>>)
     ELSE Outcome("_remove", "persist", "none", r.ixs, r.removed, <<>>)

\* Cursor._exec for find(query, callback): the candidates that match
execBody(ixs, query) ==
  LET c == getCandidates(ixs, query)
  IN IF ~c.ok THEN Outcome("_exec", "crashed", "typeError", ixs, <<>>, <<>>)
     ELSE IF \E i \in 1 .. Len(c.docs) : match(c.docs[i], query) = "throw"
       THEN Outcome("_exec", "called", "matchError", ixs, <<>>, <<>>)
     ELSE Outcome("_exec", "called", "none", ixs, <<>>, SelectSeq(c.docs, LAMBDA d : match(d, query) = "yes"))

\* the worker of the async queue takes the head of the queue and runs its
\* fn up to the point where it waits or has called back.  pc of a running
\* task: persist (waiting for persistNewState), called (the callback was
\* called and the queue's cb is scheduled), crashed (fn threw out of the worker)
start(o) ==
  /\ queue' = Tail(queue)
  /\ startLog' = Append(startLog, Head(queue).id)
  /\ pre' = indexes
  /\ running' = running \cup
       {[id |-> Head(queue).id, op |-> Head(queue).op, fn |-> o.fn, pc |-> o.pc,
         err |-> o.err, olds |-> o.olds, news |-> o.news]}
  /\ indexes' = o.ixs
  /\ UNCHANGED <<ready, buffer, nextId, mutations, indexCalls, enqLog, doneLog, live, client, ttlIndexes>>

run_insert ==
  /\ CanStart("insert")
  /\ \E isArray \in BOOLEAN :
       \E docs \in (IF isArray THEN Batches ELSE {<<d>> : d \in InputDocs}) :
         \E gen \in [1 .. Len(docs) -> AllIds] :
           /\ \A i \in 1 .. Len(docs) :
                IF docs[i]._id # 0 THEN gen[i] = docs[i]._id
                ELSE HasIndex(indexes, "_id") => gen[i] \notin IdsInUse(indexes)
           /\ start(insertBody(indexes, isArray, docs, gen, freshRefs(UsedRefs, Len(docs))))

run_update ==
  /\ CanStart("update")
  /\ \E query \in Queries, upd \in Upds, multi \in BOOLEAN, upsert \in BOOLEAN, gen \in AllIds :
       /\ (/\ upserts(indexes, query, upsert)
           /\ toBeInserted(query, upd)._id = 0
           /\ HasIndex(indexes, "_id")) => gen \notin IdsInUse(indexes)
       /\ start(updateBody(indexes, query, upd, multi, upsert, gen, UsedRefs))

run_remove ==
  /\ CanStart("remove")
  /\ \E query \in Queries, multi \in BOOLEAN :
       start(removeBody(indexes, query, multi))

run_find ==
  /\ CanStart("find")
  /\ \E query \in Queries : start(execBody(indexes, query))

\* persistNewState calls back, with or without an error; the task passes
\* the error, or its result, to its callback
persistAck ==
  \E r \in running, failed \in BOOLEAN :
    /\ r.pc = "persist"
    /\ running' = (running \ {r}) \cup
         {[r EXCEPT !.pc = "called", !.err = IF failed THEN "persistence" ELSE "none"]}
    /\ live' = IF failed THEN live ELSE (live \ Range(r.olds)) \cup Range(r.news)
    /\ UNCHANGED <<ready, buffer, queue, indexes, nextId, mutations, indexCalls, enqLog, history, client, ttlIndexes>>

\* setImmediate(cb): the queue learns that the task is complete
taskComplete ==
  \E r \in running :
    /\ r.pc = "called"
    /\ running' = running \ {r}
    /\ doneLog' = Append(doneLog, r.id)
    /\ pre' = <<>>
    /\ UNCHANGED <<ready, buffer, queue, nextId, enqLog, startLog, store, client, ttlIndexes>>

\* an ensureIndex that leaves the new index in place when filling it threw
filledKept(ixs, r) == Append(ixs, r.idx)

\* ensureIndex(options, cb), called directly
\* the end of ensureIndex, r the outcome of insert(this.getAllData()) on the
\* new index: the index is deleted again when that threw
filled(ixs, r) == IF ~r.ok THEN ixs ELSE Append(ixs, r.idx)

\* ensureIndex up to its callback.  this.getAllData() is evaluated with the
\* new index in place; its TypeError is caught like a throw of insert
ensureIndexBody(ixs, fieldName, unique, sparse) ==
  IF \/ fieldName = ""
     \/ HasIndex(ixs, fieldName)
     \/ ~getAllData(Append(ixs, NewIndex(fieldName, unique, sparse))).ok
    THEN ixs
    ELSE filled(ixs,
           Index_insertMultipleDocs(NewIndex(fieldName, unique, sparse),
             getAllData(Append(ixs, NewIndex(fieldName, unique, sparse))).docs))

ensureIndex ==
  /\ indexCalls < MaxIndexCalls
  /\ indexCalls' = indexCalls + 1
  /\ \E fieldName \in FieldNames, unique \in BOOLEAN, sparse \in BOOLEAN :
       indexes' = ensureIndexBody(indexes, fieldName, unique, sparse)
  /\ UNCHANGED <<ready, buffer, queue, running, nextId, mutations, enqLog, live, history, client, ttlIndexes>>

\* removeIndex(fieldName, cb), called directly: delete this.indexes[fieldName]
removeIndex ==
  /\ indexCalls < MaxIndexCalls
  /\ indexCalls' = indexCalls + 1
  /\ \E fieldName \in FieldNames :
       indexes' = SelectSeq(indexes, LAMBDA idx : idx.fieldName # fieldName)
  /\ UNCHANGED <<ready, buffer, queue, running, nextId, mutations, enqLog, live, history, client, ttlIndexes>>

Next ==
  \/ insert
  \/ update
  \/ remove
  \/ find
  \/ run_insert
  \/ run_update
  \/ run_remove
  \/ run_find
  \/ persistAck
  \/ taskComplete
  \/ ensureIndex
  \/ removeIndex

Spec == Init /\ [][Next]_vars

\* ---- the same store with an event loop that runs what is ready to run,
\* and clients that insert one document and find all

\* the worker runs _insert with the document {_id: 1}
run_insert_one ==
  /\ CanStart("insert")
  /\ start(insertBody(indexes, FALSE, <<[_id |-> 1, a |-> Undef]>>, <<1>>, freshRefs(UsedRefs, 1)))

\* the worker runs _exec with the query {}
run_find_all ==
  /\ CanStart("find")
  /\ start(execBody(indexes, QAll))

LiveNext ==
  \/ insert
  \/ find
  \/ run_insert_one
  \/ run_find_all
  \/ persistAck
  \/ taskComplete
  \/ removeIndex

\* the worker of the queue is called when a task is at the head of the queue
\* and nothing is running, persistNewState calls back, and setImmediate(cb)
\* runs
LiveSpec ==
  /\ Init /\ [][LiveNext]_vars
  /\ WF_vars(run_insert_one) /\ WF_vars(run_find_all)
  /\ WF_vars(persistAck)
  /\ WF_vars(taskComplete)

\* ---- the executor alone: any calls of push and processBuffer, with tasks
\* whose fn calls its callback some time after the worker started it

\* new Executor()
ExecInit ==
  /\ ready = FALSE
  /\ buffer = <<>>
  /\ queue = <<>>
  /\ running = {}
  /\ indexes = <<NewIndex("_id", TRUE, FALSE)>>
  /\ nextId = 0
  /\ mutations = 0
  /\ indexCalls = 0
  /\ enqLog = <<>>
  /\ startLog = <<>>
  /\ doneLog = <<>>
  /\ live = {}
  /\ pre = <<>>
  /\ cursor = NoCursor
  /\ call = NoCall
  /\ ttlIndexes = NoTtl

push_call ==
  /\ nextId < MaxPushes
  /\ nextId' = nextId + 1
  /\ \E forceQueuing \in BOOLEAN :
       push([id |-> nextId + 1, op |-> "task", force |-> forceQueuing], forceQueuing)
  /\ UNCHANGED <<running, store, history, client, ttlIndexes>>

\* the worker applies task.fn to the arguments, the last of them the
\* wrapped callback
run_task ==
  /\ CanStart("task")
  /\ start(Outcome("task", "fn", "none", indexes, <<>>, <<>>))

\* task.fn calls the wrapped callback: setImmediate(cb), then the callback
\* of the caller
task_callback ==
  \E r \in running, err \in {"none", "failed"} :
    /\ r.pc = "fn"
    /\ running' = (running \ {r}) \cup {[r EXCEPT !.pc = "called", !.err = err]}
    /\ UNCHANGED <<ready, buffer, queue, nextId, enqLog, store, history, client, ttlIndexes>>

ExecNext ==
  \/ push_call
  \/ processBuffer
  \/ run_task
  \/ task_callback
  \/ taskComplete

ExecSpec == ExecInit /\ [][ExecNext]_vars

\* ---- properties of the executor, checked under ExecSpec

IsPrefix(s, t) == Len(s) <= Len(t) /\ \A i \in 1 .. Len(s) : s[i] = t[i]
Increasing(s) == \A i \in 1 .. Len(s) : \A j \in i + 1 .. Len(s) : s[i] < s[j]

\* C1: at most one task is active at any time, and a task starts only after
\* every task started before it has invoked its completion callback and the
\* queue was told so
C1_OneTaskAtATime ==
  /\ Cardinality(running) <= 1
  /\ \A i \in 1 .. Len(startLog) - 1 : startLog[i] \in Range(doneLog)

\* C1: a task is running while another waits in the queue and a third one is
\* complete
C1_Witness ==
  /\ Cardinality(running) = 1
  /\ queue # <<>>
  /\ doneLog # <<>>

\* C2 as stated: tasks start and complete in the order of the push calls,
\* whatever their forceQueuing argument and the ready flag were
C2_PushOrder == Increasing(startLog) /\ Increasing(doneLog)

\* C2, amended: tasks start and complete in the order in which they entered
\* the async queue; among the tasks pushed with forceQueuing, and among those
\* pushed without it, that is the order of the push calls
C2_QueueOrder ==
  /\ IsPrefix(doneLog, startLog)
  /\ IsPrefix(startLog, Ids(enqLog))
  /\ Increasing(Ids(SelectSeq(enqLog, LAMBDA t : t.force)))
  /\ Increasing(Ids(SelectSeq(enqLog, LAMBDA t : ~t.force)))

\* C2: a task pushed with forceQueuing before the ready transition completed
\* before a task that was pushed, and buffered, before it
C2_Witness ==
  \E i \in 1 .. Len(doneLog) : \E j \in i + 1 .. Len(doneLog) :
    /\ doneLog[j] < doneLog[i]
    /\ \E t \in Range(enqLog) : t.id = doneLog[i] /\ t.force
    /\ \E t \in Range(enqLog) : t.id = doneLog[j] /\ ~t.force

\* ---- properties of the store, checked under Spec

\* the tasks that started or moved on in the step
Moved == running' \ running

\* C3: while the task of a cursor's exec runs, every task pushed before it is
\* complete, the ones that waited for persistNewState included, and no task
\* pushed after it has started: what it reads is the state the earlier tasks
\* left and nothing of the later ones
C3_ExecInOrder ==
  \A r \in running :
    r.op = "find" =>
      /\ \A id \in 1 .. r.id - 1 : id \in Range(doneLog)
      /\ \A id \in r.id + 1 .. nextId : id \notin Range(startLog)

\* C3: the task of a find has read documents an earlier insert stored, while
\* a later task waits in the queue
C3_Witness ==
  \E r \in running :
    /\ r.op = "find"
    /\ r.id > 1
    /\ r.news # <<>>
    /\ Range(r.news) \subseteq live
    /\ queue # <<>>

\* C4: a step in which _insert ends with a thrown error (an insert, or the
\* insertion of an upsert) leaves every index as it was before the step
C4_FailedInsertRestores ==
  [][\A r \in Moved :
       (r.fn = "_insert" /\ r.err \in {"uniqueViolated", "typeError"}) => indexes' = indexes]_vars

\* C4: an insert failed with a unique violation in a store with a unique
\* index on a next to the one on _id, both holding documents
C4_Witness ==
  /\ \E r \in running : r.op = "insert" /\ r.err = "uniqueViolated"
  /\ Len(indexes) = 2
  /\ indexes[2].unique
  /\ \E k \in Keys : indexes[2].tree[k] # <<>>
  /\ live # {}

\* C5 as stated: a step in which _update ends with an error thrown by
\* updateIndexes leaves every index as it was before the step
C5_FailedUpdateRestores ==
  [][\A r \in Moved :
       (r.fn = "_update" /\ r.err = "uniqueViolated") => indexes' = indexes]_vars

\* C6 as stated: a step in which _remove ends with an error thrown while it
\* went through the candidates leaves every index as it was before the step
C6_FailedRemoveRestores ==
  [][\A r \in Moved :
       (r.fn = "_remove" /\ r.err = "matchError") => indexes' = indexes]_vars

\* C7 as stated: when insert, update or remove passes an error to its
\* callback, an error of persistNewState included, the indexes are what they
\* were when the task started
C7_ErrorLeavesNoEffect ==
  [][\A r \in Moved :
       (r.op \in {"insert", "update", "remove"} /\ r.pc = "called" /\ r.err # "none")
         => indexes' = pre']_vars

\* the documents the indexes of the store hold
StoredDocs ==
  UNION {Range(indexes[i].tree[k]) : i \in 1 .. Len(indexes), k \in Keys}

\* C8 as stated: under a unique index on f no two documents of the store have
\* equal values at f (a sparse index binds only the documents that have f)
C8_UniqueValues ==
  \A i \in 1 .. Len(indexes) :
    indexes[i].unique =>
      \A d1 \in StoredDocs, d2 \in StoredDocs :
        (/\ d1.ref # d2.ref
         /\ ~(indexes[i].sparse /\ getDotValue(d1, indexes[i].fieldName) = Undef))
          => getDotValue(d1, indexes[i].fieldName) # getDotValue(d2, indexes[i].fieldName)

\* C9 as stated: while no task runs, the _id index holds every live document
\* (reported stored by a callback, not reported removed or replaced since)
\* once, and no other document
C9_IdIndexHoldsLive ==
  (running = {} /\ HasIndex(indexes, "_id")) =>
    /\ Range(Index_getAll(IndexAt(indexes, "_id"))) = live
    /\ Len(Index_getAll(IndexAt(indexes, "_id"))) = Cardinality(live)

\* C10 as stated: the store has an index on _id, unique and not sparse, in
\* every reachable state
C10_IdIndexExists ==
  \E i \in 1 .. Len(indexes) :
    indexes[i].fieldName = "_id" /\ indexes[i].unique /\ ~indexes[i].sparse

\* what looking up the key of d in the index returns: getMatching of the
\* value d has at the indexed field
LookUp(idx, d) ==
  LET key == getDotValue(d, idx.fieldName)
  IN IF key.arr THEN Index_getMatchingIn(idx, key.e)
     ELSE Index_getMatching(idx, KeyOf(key))

\* C11 as stated: while no task runs, every index holds every live document
\* (looking up its key returns it) unless the index is sparse and the document
\* has no value at the indexed field, in which case the index does not hold
\* it; and no index holds a document that is not live
C11_IndexesHoldLive ==
  running = {} =>
    \A i \in 1 .. Len(indexes) :
      /\ \A d \in live :
           IF getDotValue(d, indexes[i].fieldName) = Undef /\ indexes[i].sparse
             THEN d \notin Range(Index_getAll(indexes[i]))
             ELSE d \in Range(LookUp(indexes[i], d))
      /\ Range(Index_getAll(indexes[i])) \subseteq live

\* ---- cursor.ts: a cursor with its projection, sort, skip and limit

\* a field of the cursor, or a key of its projection, that was not set
NotSet == -1

\* a projection gives each of the keys _id, a and b the value 0 or 1, or
\* leaves it out; {} and undefined are the projection that leaves all out
NoProjection == [_id |-> NotSet, a |-> NotSet, b |-> NotSet]

\* model.deepCopy(doc): a new object with the fields of doc
deepCopy(doc) == [_id |-> doc._id, a |-> doc.a]
copies(docs) == [i \in 1 .. Len(docs) |-> deepCopy(docs[i])]

\* model.compareThings on the values of the model: undefined is below every
\* number, a number below every array, arrays compare element by element and
\* a prefix is below the longer array
RECURSIVE compareArrays(_, _)
compareArrays(s, t) ==
  IF s = <<>> /\ t = <<>> THEN 0
  ELSE IF s = <<>> THEN -1
  ELSE IF t = <<>> THEN 1
  ELSE IF Head(s) < Head(t) THEN -1
  ELSE IF Head(s) > Head(t) THEN 1
  ELSE compareArrays(Tail(s), Tail(t))

compareThings(x, y) ==
  IF x = Undef THEN (IF y = Undef THEN 0 ELSE -1)
  ELSE IF y = Undef THEN 1
  ELSE IF x.arr # y.arr THEN (IF y.arr THEN -1 ELSE 1)
  ELSE compareArrays(x.e, y.e)

\* the comparator _exec gives to res.sort: the criteria in the order of
\* Object.keys(_sort), the first that tells the documents apart decides
RECURSIVE compareDocs(_, _, _, _)
compareDocs(x, y, criteria, i) ==
  IF i > Len(criteria) THEN 0
  ELSE IF compareThings(getDotValue(x, criteria[i].key), getDotValue(y, criteria[i].key)) # 0
    THEN criteria[i].direction
           * compareThings(getDotValue(x, criteria[i].key), getDotValue(y, criteria[i].key))
    ELSE compareDocs(x, y, criteria, i + 1)

\* res.sort(comparator), a stable sort: placed is the sorted list with doc put
\* behind the documents that are not above it
placed(sorted, doc, criteria) ==
  SelectSeq(sorted, LAMBDA x : compareDocs(x, doc, criteria, 1) <= 0)
    \o <<doc>>
    \o SelectSeq(sorted, LAMBDA x : compareDocs(x, doc, criteria, 1) > 0)

RECURSIVE sortDocs(_, _)
sortDocs(res, criteria) ==
  IF res = <<>> THEN <<>>
  ELSE placed(sortDocs(SubSeq(res, 1, Len(res) - 1), criteria), res[Len(res)], criteria)

\* the loop of _exec over the candidates.  Without a sort, skip and limit
\* act in the loop; a skip or limit of 0 is falsy and acts like none
RECURSIVE filterLoop(_, _, _, _, _)
filterLoop(candidates, cur, i, skipped, res) ==
  IF i > Len(candidates) THEN [err |-> "none", res |-> res]
  ELSE IF match(candidates[i], cur.query) = "throw" THEN [err |-> "matchError", res |-> <<>>]
  ELSE IF match(candidates[i], cur.query) = "no"
    THEN filterLoop(candidates, cur, i + 1, skipped, res)
  ELSE IF cur.sort # <<>>
    THEN filterLoop(candidates, cur, i + 1, skipped, Append(res, candidates[i]))
  ELSE IF cur.skip \notin {NotSet, 0} /\ cur.skip > skipped
    THEN filterLoop(candidates, cur, i + 1, skipped + 1, res)
  ELSE IF cur.limit \notin {NotSet, 0} /\ cur.limit <= Len(res) + 1
    THEN [err |-> "none", res |-> Append(res, candidates[i])]
  ELSE filterLoop(candidates, cur, i + 1, skipped, Append(res, candidates[i]))

\* res.slice(skip, skip + limit) with limit = _limit || res.length and
\* skip = _skip || 0
sliced(res, cur) ==
  SubSeq(res,
    (IF cur.skip = NotSet THEN 0 ELSE cur.skip) + 1,
    IF (IF cur.skip = NotSet THEN 0 ELSE cur.skip)
         + (IF cur.limit \in {NotSet, 0} THEN Len(res) ELSE cur.limit) > Len(res)
      THEN Len(res)
      ELSE (IF cur.skip = NotSet THEN 0 ELSE cur.skip)
             + (IF cur.limit \in {NotSet, 0} THEN Len(res) ELSE cur.limit))

\* what project keeps of one candidate: action is the value the keys other
\* than _id have (1 picks the keys, anything else omits them), keepId is false
\* when _id has the value 0
projectOne(doc, projection) ==
  [_id |-> IF projection._id = 0 THEN 0 ELSE doc._id,
   a |-> IF (IF projection.b # NotSet THEN projection.b ELSE projection.a) = 1
           THEN (IF projection.a # NotSet THEN doc.a ELSE Undef)
           ELSE (IF projection.a # NotSet THEN Undef ELSE doc.a)]

\* a project that finds the keys' values inconsistent only while it goes
\* through the candidates: with no candidate it throws nothing
projectLazy(candidates, projection) ==
  IF projection = NoProjection
    THEN [ok |-> TRUE, res |-> candidates, projection |-> projection]
  ELSE IF candidates # <<>>
          /\ projection.a # NotSet /\ projection.b # NotSet /\ projection.a # projection.b
    THEN [ok |-> FALSE, res |-> <<>>, projection |-> [projection EXCEPT !._id = NotSet]]
  ELSE [ok |-> TRUE,
        res |-> [i \in 1 .. Len(candidates) |-> projectOne(candidates[i], projection)],
        projection |-> [projection EXCEPT !._id = NotSet]]

\* Cursor.project(candidates): [ok, res, projection], projection what
\* this._projection is afterwards.  _id is taken out of this._projection
\* before the keys are checked; ok = FALSE is the error thrown when two keys
\* have different values
project(candidates, projection) ==
  IF projection = NoProjection
    THEN [ok |-> TRUE, res |-> candidates, projection |-> projection]
  ELSE IF projection.a # NotSet /\ projection.b # NotSet /\ projection.a # projection.b
    THEN [ok |-> FALSE, res |-> <<>>, projection |-> [projection EXCEPT !._id = NotSet]]
  ELSE [ok |-> TRUE,
        res |-> [i \in 1 .. Len(candidates) |-> projectOne(candidates[i], projection)],
        projection |-> [projection EXCEPT !._id = NotSet]]

\* the end of _exec, r the outcome of this.project(res): the callback of
\* find copies every document of the result
projectedRes(r) ==
  IF ~r.ok THEN [err |-> "inconsistentProjection", res |-> <<>>, projection |-> r.projection]
  ELSE [err |-> "none", res |-> copies(r.res), projection |-> r.projection]

\* _exec after its loop, f the outcome of the loop: sort and slice, project
filtered(f, cur) ==
  IF f.err # "none" THEN [err |-> f.err, res |-> <<>>, projection |-> cur.projection]
  ELSE IF cur.sort = <<>> THEN projectedRes(project(f.res, cur.projection))
  ELSE projectedRes(project(sliced(sortDocs(f.res, cur.sort), cur), cur.projection))

\* Cursor._exec of a cursor made by find: [err, res, projection]
Cursor_exec(ixs, cur) ==
  IF ~getCandidates(ixs, cur.query).ok
    THEN [err |-> "typeError", res |-> <<>>, projection |-> cur.projection]
    ELSE filtered(filterLoop(getCandidates(ixs, cur.query).docs, cur, 1, 0, <<>>), cur)

\* ---- a client that awaits every call: the task is pushed on the idle
\* executor, the worker runs it, persistNewState calls back, and the callback
\* of the call has run before the client calls again

MaxCalls == 2          \* awaited insert, update and remove calls in one run
MaxFills == 1          \* awaited insert calls before a cursor is made
MaxExecs == 2          \* executions of one cursor

\* the error the callback of the call gets: the one the task threw, or the
\* one persistNewState answered with
errorOf(o, failed) ==
  IF o.pc = "persist" THEN (IF failed THEN "persistence" ELSE "none") ELSE o.err

\* the store when the callback has run, o what the task did
awaited(o, failed) ==
  /\ indexes' = o.ixs
  /\ live' = IF errorOf(o, failed) = "none"
               THEN (live \ Range(o.olds)) \cup Range(o.news)
               ELSE live

insertAwaited(o, failed) ==
  /\ awaited(o, failed)
  /\ call' = [op |-> "insert", err |-> errorOf(o, failed)]

\* insert(newDoc, cb) and its callback, newDoc one of the documents singles
\* or one of the arrays batches
awaitInsertFrom(singles, batches) ==
  /\ mutations' = mutations + 1
  /\ \E isArray \in BOOLEAN, failed \in BOOLEAN :
       \E docs \in (IF isArray THEN batches ELSE {<<d>> : d \in singles}) :
         \E gen \in [1 .. Len(docs) -> AllIds] :
           /\ \A i \in 1 .. Len(docs) :
                IF docs[i]._id # 0 THEN gen[i] = docs[i]._id
                ELSE HasIndex(indexes, "_id") => gen[i] \notin IdsInUse(indexes)
           /\ insertAwaited(
                insertBody(indexes, isArray, docs, gen, freshRefs(UsedRefs, Len(docs))),
                failed)
  /\ UNCHANGED <<ready, buffer, queue, running, nextId, indexCalls, enqLog, history, cursor, ttlIndexes>>

\* insert(newDoc, cb) and its callback, newDoc one document or one of batches
awaitInsert(batches) == awaitInsertFrom(InputDocs, batches)

\* the arrays of two documents the awaiting client inserts
Pairs == {<<d1, d2>> : d1 \in {d \in InputDocs : d._id = 1}, d2 \in {d \in InputDocs : d._id = 2}}

insert_await ==
  /\ mutations < MaxCalls
  /\ awaitInsert(Pairs)

\* the result _update passes to its callback
NoDocs == [kind |-> "undefined", docs |-> <<>>]
NoResult == [numAffected |-> NotSet, upsert |-> FALSE, updated |-> NoDocs]

\* after an insertion: {numAffected: 1, updated: newDoc, upsert: true}; after
\* an update: numReplaced, the upsert option as it was given, and the copies
\* of the new documents when returnUpdatedDocs is set (the first of them
\* without multi, undefined when there is none)
updateResult(o, multi, upsert, returnUpdatedDocs) ==
  IF o.fn = "_insert"
    THEN [numAffected |-> 1, upsert |-> TRUE,
          updated |-> [kind |-> "doc", docs |-> copies(o.news)]]
    ELSE [numAffected |-> Len(o.news), upsert |-> upsert,
          updated |-> IF ~returnUpdatedDocs \/ (~multi /\ o.news = <<>>) THEN NoDocs
                      ELSE IF multi THEN [kind |-> "list", docs |-> copies(o.news)]
                      ELSE [kind |-> "doc", docs |-> copies(<<o.news[1]>>)]]

updateAwaited(o, failed, query, upd, multi, upsert, returnUpdatedDocs) ==
  /\ awaited(o, failed)
  /\ call' = [op |-> "update", query |-> query, upd |-> upd, multi |-> multi,
              upsert |-> upsert, returnUpdatedDocs |-> returnUpdatedDocs,
              err |-> errorOf(o, failed),
              result |-> IF errorOf(o, failed) = "none"
                           THEN updateResult(o, multi, upsert, returnUpdatedDocs)
                           ELSE NoResult]

\* update(query, updateQuery, options, cb) and its callback; gen is what
\* createNewId draws, of use only when a document without _id is inserted
\* upsert = FALSE is the option given as false or left out
update_await ==
  /\ mutations < MaxCalls
  /\ mutations' = mutations + 1
  /\ \E query \in Queries, upd \in Upds, multi \in BOOLEAN, upsert \in BOOLEAN,
        returnUpdatedDocs \in BOOLEAN, gen \in AllIds, failed \in BOOLEAN :
       /\ IF upserts(indexes, query, upsert) /\ toBeInserted(query, upd)._id = 0
            THEN HasIndex(indexes, "_id") => gen \notin IdsInUse(indexes)
            ELSE gen = 1
       /\ updateAwaited(updateBody(indexes, query, upd, multi, upsert, gen, UsedRefs),
                        failed, query, upd, multi, upsert, returnUpdatedDocs)
  /\ UNCHANGED <<ready, buffer, queue, running, nextId, indexCalls, enqLog, history, cursor, ttlIndexes>>

removeAwaited(o, failed, query, multi) ==
  /\ awaited(o, failed)
  /\ call' = [op |-> "remove", query |-> query, multi |-> multi,
              err |-> errorOf(o, failed),
              numRemoved |-> IF errorOf(o, failed) = "none" THEN Len(o.olds) ELSE NotSet]

\* remove(query, options, cb) and its callback
remove_await ==
  /\ mutations < MaxCalls
  /\ mutations' = mutations + 1
  /\ \E query \in Queries, multi \in BOOLEAN, failed \in BOOLEAN :
       removeAwaited(removeBody(indexes, query, multi), failed, query, multi)
  /\ UNCHANGED <<ready, buffer, queue, running, nextId, indexCalls, enqLog, history, cursor, ttlIndexes>>

SeqNext ==
  \/ insert_await
  \/ update_await
  \/ remove_await
  \/ ensureIndex

SeqSpec == Init /\ [][SeqNext]_vars

\* ---- a client that leaves the _id of every document it inserts to the store

MaxIdCalls == 3        \* awaited insert and remove calls in one run
\* the documents without _id
NoIdDocs == {d \in InputDocs : d._id = 0}

\* insert(newDoc, cb) with documents that carry no _id: createNewId draws
\* the _id of each
insert_generated ==
  /\ mutations < MaxIdCalls
  /\ awaitInsertFrom(NoIdDocs, {<<d1, d2>> : d1 \in NoIdDocs, d2 \in NoIdDocs})

\* remove(query, options, cb) by _id and its callback
remove_byId ==
  /\ mutations < MaxIdCalls
  /\ mutations' = mutations + 1
  /\ \E id \in AllIds, failed \in BOOLEAN :
       removeAwaited(removeBody(indexes, QEq("_id", id), FALSE), failed, QEq("_id", id), FALSE)
  /\ UNCHANGED <<ready, buffer, queue, running, nextId, indexCalls, enqLog, history, cursor, ttlIndexes>>

IdNext ==
  \/ insert_generated
  \/ remove_byId

IdSpec == Init /\ [][IdNext]_vars

\* ---- a client that fills the store, makes one cursor and executes it

Projections == [_id : {NotSet, 0}, a : {NotSet, 0, 1}, b : {NotSet, 0, 1}]
Sorts ==
  {<<>>,
   <<[key |-> "a", direction |-> 1]>>,
   <<[key |-> "a", direction |-> -1]>>,
   <<[key |-> "a", direction |-> 1], [key |-> "_id", direction |-> -1]>>}
Skips == {0, 1}
Limits == {NotSet, 0, 1}

\* insert(newDoc, cb) and its callback, before the cursor is made
fill ==
  /\ mutations < MaxFills
  /\ cursor = NoCursor
  /\ awaitInsert(Batches)

\* find(query, projection) without a callback returns the cursor
cursor_find ==
  /\ cursor = NoCursor
  /\ \E query \in Queries, projection \in Projections :
       /\ cursor' = [made |-> TRUE, query |-> query, projection |-> projection,
                     sort |-> <<>>, skip |-> NotSet, limit |-> NotSet]
       /\ call' = [op |-> "find", given |-> projection, n |-> 0]
  /\ UNCHANGED <<ready, buffer, queue, running, nextId, enqLog, store, history, ttlIndexes>>

\* find(query).sort(sortQuery).skip(skip).limit(limit), or without the call of
\* sort (sort = <<>>) or of limit (limit = NotSet): find called with one
\* argument gives the cursor the projection {}
cursor_chain ==
  /\ cursor = NoCursor
  /\ \E query \in Queries, sort \in Sorts, skip \in Skips, limit \in Limits :
       /\ cursor' = [made |-> TRUE, query |-> query, projection |-> NoProjection,
                     sort |-> sort, skip |-> skip, limit |-> limit]
       /\ call' = [op |-> "find", given |-> NoProjection, n |-> 0]
  /\ UNCHANGED <<ready, buffer, queue, running, nextId, enqLog, store, history, ttlIndexes>>

\* the cursor and the client when the callback of exec has run
executed(o) ==
  /\ cursor' = [cursor EXCEPT !.projection = o.projection]
  /\ call' = [op |-> "exec", given |-> call.given, n |-> call.n + 1,
              err |-> o.err, res |-> o.res]

\* cursor.exec(cb) and its callback
cursor_exec ==
  /\ cursor # NoCursor
  /\ call.n < MaxExecs
  /\ executed(Cursor_exec(indexes, cursor))
  /\ UNCHANGED <<ready, buffer, queue, running, nextId, enqLog, store, history, ttlIndexes>>

CursorNext ==
  \/ fill
  \/ ensureIndex
  \/ cursor_find
  \/ cursor_chain
  \/ cursor_exec

CursorSpec == Init /\ [][CursorNext]_vars

\* ---- a client of a store with TTL indexes: it awaits ensureIndex with
\* expireAfterSeconds, removeIndex, insert and getCandidates

MaxTtlCalls == 3       \* awaited insert and getCandidates calls in one run
MaxTtlIndexCalls == 2  \* awaited ensureIndex and removeIndex calls in one run
\* options.expireAfterSeconds, NotSet when the option is left out
ExpireAfter == {NotSet, 0, 1}
\* Date.now() at the call of getCandidates, in milliseconds: the time of
\* the later date, and one second after it
Nows == {2, 1002}
\* documents with a date or a number in field a
TtlDocs == [_id : AllIds, a : {Num(2), Date(1), Date(2)}]
TtlQueries == {QAll, QEq("_id", 1), QEq("a", 2)}

\* this.ttlIndexes[options.fieldName] = options.expireAfterSeconds
registered(ttl, fieldName, expireAfterSeconds) ==
  [f \in DOMAIN ttl \cup {fieldName} |->
     IF f = fieldName THEN expireAfterSeconds ELSE ttl[f]]

\* an ensureIndex that registers the field before it looks for an index on it
ensureIndexTtlFirst(ixs, ttl, fieldName, expireAfterSeconds) ==
  IF fieldName = "" \/ expireAfterSeconds = NotSet
    THEN ttl
    ELSE registered(ttl, fieldName, expireAfterSeconds)

\* this.ttlIndexes when ensureIndex has called back: the field is registered
\* once the new index is in this.indexes, before it is filled
ensureIndexTtl(ixs, ttl, fieldName, expireAfterSeconds) ==
  IF fieldName = "" \/ HasIndex(ixs, fieldName) \/ expireAfterSeconds = NotSet
    THEN ttl
    ELSE registered(ttl, fieldName, expireAfterSeconds)

\* the error ensureIndex passes to its callback; failed is what
\* persistNewState answers
ensureIndexError(ixs, fieldName, unique, sparse, failed) ==
  IF fieldName = "" THEN "missingFieldName"
  ELSE IF HasIndex(ixs, fieldName) THEN "none"
  ELSE IF ~getAllData(Append(ixs, NewIndex(fieldName, unique, sparse))).ok THEN "typeError"
  ELSE IF ~Index_insertMultipleDocs(NewIndex(fieldName, unique, sparse),
             getAllData(Append(ixs, NewIndex(fieldName, unique, sparse))).docs).ok
    THEN "uniqueViolated"
  ELSE IF failed THEN "persistence"
  ELSE "none"

\* ensureIndex(options, cb) and its callback
ensureIndex_await ==
  /\ indexCalls < MaxTtlIndexCalls
  /\ indexCalls' = indexCalls + 1
  /\ \E fieldName \in FieldNames, unique \in BOOLEAN, sparse \in BOOLEAN,
        expireAfterSeconds \in ExpireAfter, failed \in BOOLEAN :
       /\ indexes' = ensureIndexBody(indexes, fieldName, unique, sparse)
       /\ ttlIndexes' = ensureIndexTtl(indexes, ttlIndexes, fieldName, expireAfterSeconds)
       /\ call' = [op |-> "ensureIndex", fieldName |-> fieldName,
                   unique |-> unique, sparse |-> sparse,
                   expireAfterSeconds |-> expireAfterSeconds,
                   err |-> ensureIndexError(indexes, fieldName, unique, sparse, failed)]
  /\ UNCHANGED <<ready, buffer, queue, running, nextId, mutations, enqLog, live, history, cursor>>

\* removeIndex(fieldName, cb) and its callback
removeIndex_await ==
  /\ indexCalls < MaxTtlIndexCalls
  /\ indexCalls' = indexCalls + 1
  /\ \E fieldName \in FieldNames \ {""}, failed \in BOOLEAN :
       /\ indexes' = SelectSeq(indexes, LAMBDA idx : idx.fieldName # fieldName)
       /\ call' = [op |-> "removeIndex", fieldName |-> fieldName,
                   err |-> IF failed THEN "persistence" ELSE "none"]
  /\ UNCHANGED <<ready, buffer, queue, running, nextId, mutations, enqLog, live, history,
                 cursor, ttlIndexes>>

\* insert(newDoc, cb) of one document and its callback
insert_dated ==
  /\ mutations < MaxTtlCalls
  /\ awaitInsertFrom(TtlDocs, {})

\* ttlIndexesFieldNames.forEach of STEP 2: doc is not valid at the time now
expired(ttl, doc, now) ==
  \E i \in DOMAIN ttl :
    /\ getDotValue(doc, i) # Undef
    /\ isDate(getDotValue(doc, i))
    /\ now > getTime(getDotValue(doc, i)) + ttl[i] * 1000

\* async.eachSeries over expiredDocsIds: _remove({_id: _id}, {}, cb) for one id
\* after the other; an error of a remove goes to the callback of
\* getCandidates and ends the series.  failAt is the call of persistNewState
\* that answers with an error (0: none does); removed are the documents the
\* removes reported
RECURSIVE expireLoop(_, _, _, _, _)
expiredOne(docs, i, failAt, removed, r) ==
  IF r.pc = "crashed" THEN [err |-> "typeError", ixs |-> r.ixs, removed |-> removed]
  ELSE IF r.err # "none" THEN [err |-> r.err, ixs |-> r.ixs, removed |-> removed]
  ELSE IF failAt = i THEN [err |-> "persistence", ixs |-> r.ixs, removed |-> removed]
  ELSE expireLoop(r.ixs, docs, i + 1, failAt, removed \o r.olds)

expireLoop(ixs, docs, i, failAt, removed) ==
  IF i > Len(docs) THEN [err |-> "none", ixs |-> ixs, removed |-> removed]
  ELSE expiredOne(docs, i, failAt, removed, removeBody(ixs, QEq("_id", docs[i]._id), FALSE))

\* the end of STEP 2: validDocs go to the callback when every remove succeeded
passedOn(validDocs, r) ==
  [err |-> r.err, docs |-> IF r.err = "none" THEN validDocs ELSE <<>>,
   ixs |-> r.ixs, removed |-> r.removed]

\* getCandidates(query, dontExpireStaleDocs, callback), STEP 2, c the outcome
\* of STEP 1
getCandidatesStep2(ixs, ttl, dontExpireStaleDocs, now, failAt, c) ==
  IF ~c.ok THEN [err |-> "typeError", docs |-> <<>>, ixs |-> ixs, removed |-> <<>>]
  ELSE IF dontExpireStaleDocs THEN [err |-> "none", docs |-> c.docs, ixs |-> ixs, removed |-> <<>>]
  ELSE passedOn(SelectSeq(c.docs, LAMBDA d : ~expired(ttl, d, now)),
                expireLoop(ixs, SelectSeq(c.docs, LAMBDA d : expired(ttl, d, now)),
                           1, failAt, <<>>))

\* the store and the client when getCandidates has called back (or thrown)
candidatesPassed(query, dontExpireStaleDocs, now, r) ==
  /\ indexes' = r.ixs
  /\ live' = live \ Range(r.removed)
  /\ call' = [op |-> "getCandidates", query |-> query,
              dontExpireStaleDocs |-> dontExpireStaleDocs, now |-> now,
              err |-> r.err, docs |-> r.docs, removed |-> r.removed]

\* getCandidates(query, dontExpireStaleDocs, cb) and its callback
getCandidates_await ==
  /\ mutations < MaxTtlCalls
  /\ mutations' = mutations + 1
  /\ \E query \in TtlQueries, dontExpireStaleDocs \in BOOLEAN, now \in Nows, failAt \in 0 .. 2 :
       candidatesPassed(query, dontExpireStaleDocs, now,
         getCandidatesStep2(indexes, ttlIndexes, dontExpireStaleDocs, now, failAt,
                            getCandidates(indexes, query)))
  /\ UNCHANGED <<ready, buffer, queue, running, nextId, indexCalls, enqLog, history,
                 cursor, ttlIndexes>>

TtlNext ==
  \/ ensureIndex_await
  \/ removeIndex_await
  \/ insert_dated
  \/ getCandidates_await

TtlSpec == Init /\ [][TtlNext]_vars

\* ---- a client that keeps the objects it passed to a call and got back
\* from it, and changes them afterwards

MaxKeptCalls == 2      \* awaited insert, find, findOne and update calls in one run
MaxChanges == 1        \* changes the client makes to the objects of one call
KeptQueries == {QAll, QEq("_id", 1), QEq("a", 2)}

\* model.deepCopy(doc) with the object it allocates
deepCopyAs(doc, ref) == [_id |-> doc._id, a |-> doc.a, ref |-> ref]

RefsOf(docs) == {docs[i].ref : i \in 1 .. Len(docs)}

\* a hand-out of the documents themselves, without a copy
handedOutUncopied(docs, used) == docs

\* res.push(model.deepCopy(docs[i])) for every document of docs
handedOut(docs, used) ==
  [i \in 1 .. Len(docs) |-> deepCopyAs(docs[i], freshRefs(used, Len(docs))[i])]

\* the documents docs as objects of the client
newDocs_of(docs, refs) ==
  [i \in 1 .. Len(docs) |-> [_id |-> docs[i]._id, a |-> docs[i].a, ref |-> refs[i]]]

\* the client when the callback of a call has run
kept(op, err, passed, returned) ==
  call' = [op |-> op, err |-> err, passed |-> passed, returned |-> returned, changes |-> 0]

\* the callback of _insert: callback(null, model.deepCopy(preparedDoc))
insertKept(passed, o, failed) ==
  /\ awaited(o, failed)
  /\ kept("insert", errorOf(o, failed), passed,
          IF errorOf(o, failed) = "none"
            THEN handedOut(o.news, UsedRefs \cup RefsOf(passed) \cup RefsOf(o.news))
            ELSE <<>>)

\* insert(newDoc, cb) and its callback, newDoc an object or an array of
\* objects of the client
insert_kept ==
  /\ mutations < MaxKeptCalls
  /\ mutations' = mutations + 1
  /\ \E isArray \in BOOLEAN, failed \in BOOLEAN :
       \E docs \in (IF isArray THEN Pairs ELSE {<<d>> : d \in InputDocs}) :
         \E gen \in [1 .. Len(docs) -> AllIds] :
           /\ \A i \in 1 .. Len(docs) :
                IF docs[i]._id # 0 THEN gen[i] = docs[i]._id
                ELSE gen[i] \notin IdsInUse(indexes)
           /\ insertKept(
                newDocs_of(docs, freshRefs(UsedRefs, Len(docs))),
                insertBody(indexes, isArray,
                  newDocs_of(docs, freshRefs(UsedRefs, Len(docs))), gen,
                  freshRefs(UsedRefs \cup Range(freshRefs(UsedRefs, Len(docs))), Len(docs))),
                failed)
  /\ UNCHANGED <<ready, buffer, queue, running, nextId, indexCalls, enqLog, history, cursor, ttlIndexes>>

\* the execFn of find and of findOne: every document copied, or the one
\* document the cursor with limit(1) found
foundKept(one, o) ==
  kept(IF one THEN "findOne" ELSE "find", o.err, <<>>,
       IF o.err # "none" THEN <<>>
       ELSE handedOut(IF one /\ o.news # <<>> THEN <<o.news[1]>> ELSE o.news, UsedRefs))

\* find(query, cb) or findOne(query, cb) and its callback
find_kept ==
  /\ mutations < MaxKeptCalls
  /\ mutations' = mutations + 1
  /\ \E query \in KeptQueries, one \in BOOLEAN : foundKept(one, execBody(indexes, query))
  /\ UNCHANGED <<ready, buffer, queue, running, indexes, nextId, indexCalls, enqLog, live,
                 history, cursor, ttlIndexes>>

\* the new documents the callback of _update gets copies of
updatedDocs(o, multi, returnUpdatedDocs) ==
  IF o.fn = "_insert" THEN o.news
  ELSE IF ~returnUpdatedDocs \/ (~multi /\ o.news = <<>>) THEN <<>>
  ELSE IF multi THEN o.news
  ELSE <<o.news[1]>>

updateKept(o, failed, multi, returnUpdatedDocs) ==
  /\ awaited(o, failed)
  /\ kept("update", errorOf(o, failed), <<>>,
          IF errorOf(o, failed) = "none"
            THEN handedOut(updatedDocs(o, multi, returnUpdatedDocs), UsedRefs \cup RefsOf(o.news))
            ELSE <<>>)

\* update(query, updateQuery, options, cb) and its callback
update_kept ==
  /\ mutations < MaxKeptCalls
  /\ mutations' = mutations + 1
  /\ \E query \in KeptQueries, upd \in Upds, multi \in BOOLEAN, upsert \in BOOLEAN,
        returnUpdatedDocs \in BOOLEAN, gen \in AllIds, failed \in BOOLEAN :
       /\ IF upserts(indexes, query, upsert) /\ toBeInserted(query, upd)._id = 0
            THEN gen \notin IdsInUse(indexes)
            ELSE gen = 1
       /\ updateKept(updateBody(indexes, query, upd, multi, upsert, gen, UsedRefs),
                     failed, multi, returnUpdatedDocs)
  /\ UNCHANGED <<ready, buffer, queue, running, nextId, indexCalls, enqLog, history, cursor, ttlIndexes>>

\* the object ref with field a set to v, wherever it is held
changedIn(docs, ref, v) ==
  [j \in 1 .. Len(docs) |-> IF docs[j].ref = ref THEN [docs[j] EXCEPT !.a = v] ELSE docs[j]]

\* the client sets field a of an object it passed in or got back
client_change ==
  /\ call.op # "none"
  /\ call.changes < MaxChanges
  /\ \E ref \in RefsOf(call.passed) \cup RefsOf(call.returned), v \in {Undef, Num(1)} :
       /\ indexes' = [i \in 1 .. Len(indexes) |->
                        [indexes[i] EXCEPT !.tree =
                           [k \in Keys |-> changedIn(indexes[i].tree[k], ref, v)]]]
       /\ live' = {IF d.ref = ref THEN [d EXCEPT !.a = v] ELSE d : d \in live}
       /\ call' = [call EXCEPT !.changes = @ + 1,
                               !.passed = changedIn(@, ref, v),
                               !.returned = changedIn(@, ref, v)]
  /\ UNCHANGED <<ready, buffer, queue, running, nextId, mutations, indexCalls, enqLog,
                 history, cursor, ttlIndexes>>

KeptNext ==
  \/ insert_kept
  \/ find_kept
  \/ update_kept
  \/ client_change

KeptSpec == Init /\ [][KeptNext]_vars

\* ---- one index alone: any calls of insert and remove with one document

MaxIndexOps == 3       \* Index.insert and Index.remove calls in one run

\* the values of the indexed field: arrays with a repeated element and with
\* elements that are arrays themselves
IndexVals ==
  {Undef, Num(1), Arr(<<>>), Arr(<<1, 2, 1>>), Arr(<<2, 5>>), Arr(<<5, 6>>)}

\* new Index({fieldName: 'a', unique, sparse})
IndexInit ==
  /\ ready = FALSE
  /\ buffer = <<>>
  /\ queue = <<>>
  /\ running = {}
  /\ indexes \in {<<NewIndex("a", unique, sparse)>> : unique \in BOOLEAN, sparse \in BOOLEAN}
  /\ nextId = 0
  /\ mutations = 0
  /\ indexCalls = 0
  /\ enqLog = <<>>
  /\ startLog = <<>>
  /\ doneLog = <<>>
  /\ live = {}
  /\ pre = <<>>
  /\ cursor = NoCursor
  /\ call = NoCall
  /\ ttlIndexes = NoTtl

\* the caller of an index after insert(doc) returned or threw: live is the
\* set of the documents it inserted and did not remove
inserted(doc, r) ==
  /\ indexes' = <<r.idx>>
  /\ live' = IF r.ok THEN live \cup {doc} ELSE live
  /\ call' = [op |-> "Index.insert", doc |-> doc, ok |-> r.ok]

\* index.insert(doc) with a document that is not an array
Index_insert_call ==
  /\ mutations < MaxIndexOps
  /\ mutations' = mutations + 1
  /\ pre' = indexes
  /\ \E id \in AllIds, a \in IndexVals :
       inserted([_id |-> id, a |-> a, ref |-> freshRefs(UsedRefs, 1)[1]],
                Index_insert(indexes[1],
                  [_id |-> id, a |-> a, ref |-> freshRefs(UsedRefs, 1)[1]]))
  /\ UNCHANGED <<ready, buffer, queue, running, nextId, indexCalls, enqLog, startLog,
                 doneLog, cursor, ttlIndexes>>

\* index.remove(doc) with a document the index was given
Index_remove_call ==
  /\ mutations < MaxIndexOps
  /\ mutations' = mutations + 1
  /\ pre' = indexes
  /\ \E doc \in live :
       /\ indexes' = <<Index_remove(indexes[1], doc)>>
       /\ live' = live \ {doc}
       /\ call' = [op |-> "Index.remove", doc |-> doc, ok |-> TRUE]
  /\ UNCHANGED <<ready, buffer, queue, running, nextId, indexCalls, enqLog, startLog,
                 doneLog, cursor, ttlIndexes>>

IndexNext ==
  \/ Index_insert_call
  \/ Index_remove_call

IndexSpec == IndexInit /\ [][IndexNext]_vars

\* ---- one index alone: calls of insert, and of update with an array of pairs

MaxPairs == 2          \* pairs of one call of update

\* the pairs {oldDoc, newDoc} of olds with the new values vals: every new
\* document is a new object with the _id of the old one
pairsOf(olds, vals, refs) ==
  [i \in 1 .. Len(olds) |->
     [oldDoc |-> olds[i],
      newDoc |-> [_id |-> olds[i]._id, a |-> vals[i], ref |-> refs[i]]]]

\* the caller of an index after update(pairs) returned or threw
updatedPairs(pairs, r) ==
  /\ indexes' = <<r.idx>>
  /\ live' = IF r.ok THEN (live \ Range(oldDocs(pairs))) \cup Range(newDocs(pairs)) ELSE live
  /\ call' = [op |-> "Index.update", pairs |-> pairs, ok |-> r.ok]

\* index.update(pairs) with old documents the index was given, each once
Index_update_call ==
  /\ mutations < MaxIndexOps
  /\ mutations' = mutations + 1
  /\ pre' = indexes
  /\ \E n \in 1 .. MaxPairs :
       \E olds \in {s \in [1 .. n -> live] : \A i, j \in 1 .. n : s[i] = s[j] => i = j} :
         \E vals \in [1 .. n -> IndexVals] :
           updatedPairs(pairsOf(olds, vals, freshRefs(UsedRefs, n)),
                        Index_updateMultipleDocs(indexes[1],
                          pairsOf(olds, vals, freshRefs(UsedRefs, n))))
  /\ UNCHANGED <<ready, buffer, queue, running, nextId, indexCalls, enqLog, startLog,
                 doneLog, cursor, ttlIndexes>>

UpdNext ==
  \/ Index_insert_call
  \/ Index_update_call

UpdSpec == IndexInit /\ [][UpdNext]_vars

\* ---- properties of one index, checked under IndexSpec

\* the number of entries of the tree that hold doc under the key k
Entries(idx, k, doc) == Len(SelectSeq(idx.tree[k], LAMBDA x : checkValueEquality(x, doc)))

\* C12 as stated: after insert(doc) the index holds doc once under each
\* element of an array value, whatever the elements are, and under no other
\* key; once under the value when it is not an array (not at all when it is
\* undefined and the index sparse); after remove(doc) it holds doc nowhere
C12_OneEntryPerElement ==
  /\ (call.op = "Index.insert" /\ call.ok) =>
       \A k \in Keys :
         Entries(indexes[1], k, call.doc) =
           (IF call.doc.a.arr
              THEN (IF k \in Range(call.doc.a.e) THEN 1 ELSE 0)
              ELSE (IF k = KeyOf(call.doc.a) /\ ~(call.doc.a = Undef /\ indexes[1].sparse)
                      THEN 1 ELSE 0))
  /\ call.op = "Index.remove" =>
       \A k \in Keys : Entries(indexes[1], k, call.doc) = 0

\* C12: the index took a document whose array value repeats an element, and
\* holds it under two keys
C12_Witness ==
  /\ call.op = "Index.insert"
  /\ call.ok
  /\ call.doc.a = Arr(<<1, 2, 1>>)
  /\ Entries(indexes[1], 1, call.doc) = 1
  /\ Entries(indexes[1], 2, call.doc) = 1

\* ---- the claims about find and the cursor, stated on the step that executes
\* the cursor: cursor is the cursor before the step, call' what the callback got

\* the documents of docs the query matches
Matching(docs, query) == {d \in docs : match(d, query) = "yes"}
\* the contents of the documents of docs
Contents(docs) == {deepCopy(d) : d \in docs}
\* the step is an execution of the cursor that delivers a result
Executes == call'.op = "exec" /\ call' # call /\ call'.err = "none"

\* C13: find(Q) without sort, skip, limit and projection returns exactly the
\* live documents that Q matches, each of them once
C13_FindReturnsLiveMatching ==
  [][(/\ Executes
      /\ call.given = NoProjection
      /\ cursor.sort = <<>> /\ cursor.skip = NotSet /\ cursor.limit = NotSet)
       => /\ Range(call'.res) = Contents(Matching(live, cursor.query))
          /\ Len(call'.res) = Cardinality(Matching(live, cursor.query))]_vars

\* an execution of find(Q) alone has returned two documents
C13_Witness ==
  /\ call.op = "exec" /\ call.err = "none" /\ call.given = NoProjection
  /\ cursor.sort = <<>> /\ cursor.skip = NotSet /\ cursor.limit = NotSet
  /\ Len(call.res) = 2 /\ call.res[1] # call.res[2]

\* the projection gives 1 to one key other than _id and 0 to another
Mixes(projection) ==
  projection.a # NotSet /\ projection.b # NotSet /\ projection.a # projection.b
\* the query throws on one of the candidates the store gives for it
Throws(ixs, query) ==
  \E d \in Range(getCandidates(ixs, query).docs) : match(d, query) = "throw"

C19_IdUnlessExcluded ==
  [][Executes
       => \A i \in 1 .. Len(call'.res) :
            (call'.res[i]._id = 0) <=> (call.given._id = 0)]_vars

\* the second execution of a cursor with _id: 0 has returned a document
C19_Witness ==
  /\ call.op = "exec" /\ call.n = 2 /\ call.err = "none"
  /\ call.given._id = 0 /\ call.res # <<>>

\* the lists that hold every document of docs once, in the order of criteria
RECURSIVE Orders(_, _)
Orders(docs, criteria) ==
  IF docs = {} THEN {<<>>}
  ELSE UNION {{Append(l, d) : l \in {m \in Orders(docs \ {d}, criteria) :
                                       \A i \in 1 .. Len(m) : compareDocs(m[i], d, criteria, 1) <= 0}} :
              d \in docs}
\* the positions [skip, skip + limit) of list, to the end without a limit
Cut(list, skip, limit) ==
  SubSeq(list, skip + 1,
         IF limit = NotSet \/ skip + limit > Len(list) THEN Len(list) ELSE skip + limit)

\* C20: a cursor with a sort returns the matching documents in the order of
\* the sort keys, cut to the positions [skip, skip + limit)
C20_SortedThenCut ==
  [][(Executes /\ cursor.sort # <<>>)
       => \E l \in Orders(Matching(live, cursor.query), cursor.sort) :
            call'.res = copies(Cut(l, cursor.skip, cursor.limit))]_vars

\* a sorted execution with limit 1 has returned the second of the documents
C20_Witness ==
  /\ call.op = "exec" /\ call.err = "none" /\ cursor.made
  /\ cursor.sort # <<>> /\ cursor.skip = 1 /\ cursor.limit = 1
  /\ Len(call.res) = 1 /\ Cardinality(live) >= 2

\* ---- the claims about update and remove, stated on the step of the awaited
\* call: indexes and live are the store before the call, indexes' the store
\* after it and call' the call with what its callback got

\* the documents the indexes ixs hold
DocsOf(ixs) == UNION {Range(ixs[i].tree[k]) : i \in 1 .. Len(ixs), k \in Keys}
\* the candidates of the query that match it, in the order of the candidates
MatchingCandidates(ixs, query) ==
  SelectSeq(getCandidates(ixs, query).docs, LAMBDA d : match(d, query) = "yes")
\* the step is a call of op that its callback reports as a success
Succeeds(op) == mutations' # mutations /\ call'.op = op /\ call'.err = "none"
\* every index holds doc as an index with its options holds it after insert
HeldAsInserted(ixs, doc) ==
  \A i \in 1 .. Len(ixs), k \in Keys :
    Entries(ixs[i], k, doc)
      = Entries(Index_insert(NewIndex(ixs[i].fieldName, ixs[i].unique, ixs[i].sparse), doc).idx,
                k, doc)
\* no index holds doc
HeldNowhere(ixs, doc) == \A i \in 1 .. Len(ixs), k \in Keys : Entries(ixs[i], k, doc) = 0
\* every index holds doc in after as in before
HeldAsBefore(before, after, doc) ==
  /\ Len(after) = Len(before)
  /\ \A i \in 1 .. Len(before), k \in Keys :
       Entries(after[i], k, doc) = Entries(before[i], k, doc)

\* C14: an update with upsert whose query matches no live document inserts
\* exactly one new document, the one made of the query and the update, leaves
\* the others as they are and reports numAffected 1, upsert true and the new
\* document as updated
C14_UpsertInsertsOne ==
  [][(/\ Succeeds("update")
      /\ call'.upsert
      /\ Matching(live, call'.query) = {})
       => \E doc \in DocsOf(indexes') \ DocsOf(indexes) :
            /\ DocsOf(indexes') = DocsOf(indexes) \cup {doc}
            /\ live' = live \cup {doc}
            /\ doc.a = toBeInserted(call'.query, call'.upd).a
            /\ toBeInserted(call'.query, call'.upd)._id \in {0, doc._id}
            /\ HeldAsInserted(indexes', doc)
            /\ \A d \in DocsOf(indexes) : HeldAsBefore(indexes, indexes', d)
            /\ call'.result = [numAffected |-> 1, upsert |-> TRUE,
                               updated |-> [kind |-> "doc", docs |-> <<deepCopy(doc)>>]]]_vars

\* an update with upsert has inserted a document into a store that had one
C14_Witness ==
  /\ call.op = "update" /\ call.err = "none" /\ call.upsert
  /\ call.result.numAffected = 1 /\ call.result.upsert
  /\ call.result.updated.kind = "doc"
  /\ Cardinality(live) = 2 /\ \E d \in live : deepCopy(d) = call.result.updated.docs[1]

\* the documents the call took out of the indexes, and those it put in
Replaced == DocsOf(indexes) \ DocsOf(indexes')
Added == DocsOf(indexes') \ DocsOf(indexes)
\* the first of the candidates that match, if there is one
FirstMatching(ixs, query) ==
  IF MatchingCandidates(ixs, query) = <<>> THEN {} ELSE {MatchingCandidates(ixs, query)[1]}
\* the update of the step inserts no document: a live document matches, or
\* upsert is not requested
UpdatesOnly ==
  /\ Succeeds("update")
  /\ ~call'.upsert \/ Matching(live, call'.query) # {}

\* C15: an update that inserts no document reports upsert false, the number
\* of documents it modified as numAffected, and updated undefined unless
\* returnUpdatedDocs is set; then the list of the new documents with multi and
\* the single new document without
C15_UpdateReport ==
  [][UpdatesOnly
       => /\ call'.result.upsert = FALSE
          /\ call'.result.numAffected = Cardinality(Added)
          /\ IF ~call'.returnUpdatedDocs THEN call'.result.updated = NoDocs
             ELSE IF call'.multi
               THEN /\ call'.result.updated.kind = "list"
                    /\ Range(call'.result.updated.docs) = Contents(Added)
                    /\ Len(call'.result.updated.docs) = Cardinality(Added)
             ELSE IF Added = {} THEN call'.result.updated = NoDocs
             ELSE /\ call'.result.updated.kind = "doc"
                  /\ Range(call'.result.updated.docs) = Contents(Added)
                  /\ Len(call'.result.updated.docs) = 1]_vars

\* an update with multi and returnUpdatedDocs has modified two documents and
\* reported them
C15_Witness ==
  /\ call.op = "update" /\ call.err = "none" /\ ~call.upsert
  /\ call.multi /\ call.returnUpdatedDocs
  /\ call.result.numAffected = 2 /\ call.result.updated.kind = "list"
  /\ Contents(live) = Range(call.result.updated.docs)

C17_RemoveDeletes ==
  [][Succeeds("remove")
       => /\ Added = {}
          /\ Replaced = IF call'.multi THEN Matching(live, call'.query)
                        ELSE FirstMatching(indexes, call'.query)
          /\ call'.numRemoved = Cardinality(Replaced)
          /\ \A old \in Replaced : HeldNowhere(indexes', old)
          /\ \A d \in DocsOf(indexes) \ Replaced : HeldAsBefore(indexes, indexes', d)
          /\ live' = live \ Replaced]_vars

\* a remove with multi has deleted two documents and reported 2
C17_Witness ==
  /\ call.op = "remove" /\ call.err = "none" /\ call.multi
  /\ call.numRemoved = 2 /\ StoredDocs = {} /\ live = {}

\* ---- who changes the store, checked under Spec

\* C21: the indexes and the TTL registry change only in a step of the task
\* the worker starts or has running alone, with the executor ready: never
\* while a task that was started before is suspended
C21_OnlyActiveTaskMutates ==
  [][(indexes' # indexes \/ ttlIndexes' # ttlIndexes)
       => /\ ready
          /\ running = {}
          /\ startLog' # startLog]_vars

\* a task is suspended in persistNewState after it changed the indexes
C21_Witness ==
  /\ \E r \in running : r.pc = "persist"
  /\ indexes # pre

\* ---- the executor before the ready transition, checked under ExecSpec

\* C25: while the executor is not ready the buffer holds the tasks pushed
\* without forceQueuing and none of them has started, what has entered the
\* queue are tasks pushed with forceQueuing, and tasks start in the order in
\* which they entered the queue; a push in that state appends the task to the
\* queue with forceQueuing and to the buffer without; the step that makes the
\* executor ready appends the buffer to the queue, behind the tasks queued
\* before, and empties the buffer
C25_BufferedUntilReady ==
  /\ [](/\ ~ready => /\ \A i \in 1 .. Len(buffer) :
                          ~buffer[i].force /\ buffer[i].id \notin Range(startLog)
                     /\ \A i \in 1 .. Len(enqLog) : enqLog[i].force
        /\ ready => buffer = <<>>
        /\ IsPrefix(startLog, Ids(enqLog)))
  /\ [][/\ (~ready /\ nextId' # nextId)
             => \/ /\ queue' = Append(queue, [id |-> nextId', op |-> "task", force |-> TRUE])
                   /\ buffer' = buffer /\ ~ready'
                \/ /\ buffer' = Append(buffer, [id |-> nextId', op |-> "task", force |-> FALSE])
                   /\ queue' = queue /\ ~ready'
        /\ (~ready /\ ready')
             => /\ queue' = queue \o buffer
                /\ enqLog' = enqLog \o buffer
                /\ buffer' = <<>>]_vars

\* the executor is not ready, a task waits in the buffer and a task pushed
\* after it with forceQueuing has started
C25_Witness ==
  /\ ~ready
  /\ buffer # <<>>
  /\ \E id \in Range(startLog) : id > buffer[1].id

\* ---- the filter loop of a cursor without sort, checked under CursorSpec

\* C26: for a cursor without sort whose skip and limit are set, the loop
\* returns the candidates that match, in the order of the candidates, cut to
\* the positions [skip, skip + limit), and never more than limit documents
C26_LoopEqualsFilterThenCut ==
  [][(/\ Executes
      /\ cursor.sort = <<>>
      /\ cursor.skip # NotSet /\ cursor.limit # NotSet)
       => /\ call'.res = copies(Cut(MatchingCandidates(indexes, cursor.query),
                                    cursor.skip, cursor.limit))
          /\ Len(call'.res) <= cursor.limit]_vars

\* a cursor without sort, with skip 1 and limit 1, has returned the second of
\* three matching candidates
C26_Witness ==
  /\ call.op = "exec" /\ call.err = "none" /\ cursor.made
  /\ cursor.sort = <<>> /\ cursor.skip = 1 /\ cursor.limit = 1
  /\ Len(MatchingCandidates(indexes, cursor.query)) = 3
  /\ call.res = <<deepCopy(MatchingCandidates(indexes, cursor.query)[2])>>

\* ---- generated _ids, checked under IdSpec (the store has the _id index only)

\* C23: an insert of documents that carry no _id does not fail with a unique
\* violation, the _id index being the only index
C23_GeneratedIdsNeverCollide ==
  [][(mutations' # mutations /\ call'.op = "insert")
       => call'.err # "uniqueViolated"]_vars

\* an insert of two documents without _id has stored both
C23_Witness ==
  /\ call.op = "insert" /\ call.err = "none"
  /\ mutations = 1 /\ Cardinality(live) = 2

\* ---- the update of one index with an array of pairs, checked under UpdSpec

\* the keys under which an index with the options of idx has to hold doc
KeysOfDoc(idx, doc) ==
  IF doc.a = Undef THEN (IF idx.sparse THEN {} ELSE {UndefKey})
  ELSE IF doc.a.arr THEN Range(doc.a.e)
  ELSE {KeyOf(doc.a)}
\* no two documents of docs have a key in common
NoDuplicateKey(idx, docs) ==
  \A d1 \in docs, d2 \in docs :
    d1 # d2 => KeysOfDoc(idx, d1) \cap KeysOfDoc(idx, d2) = {}

\* C30: an update of a unique index with pairs whose new documents, together
\* with the documents the call does not touch, have no key in common
\* succeeds, whatever keys the old documents held: after it the index holds
\* no old document, every new document as insert puts it, and the others as
\* before
C30_BatchUpdateSucceeds ==
  [][(/\ mutations' # mutations
      /\ call'.op = "Index.update"
      /\ indexes[1].unique
      /\ NoDuplicateKey(indexes[1],
           Range(newDocs(call'.pairs)) \cup (live \ Range(oldDocs(call'.pairs)))))
       => /\ call'.ok
          /\ \A d \in Range(oldDocs(call'.pairs)) : HeldNowhere(indexes', d)
          /\ \A d \in Range(newDocs(call'.pairs)) : HeldAsInserted(indexes', d)
          /\ \A d \in live \ Range(oldDocs(call'.pairs)) : HeldAsBefore(indexes, indexes', d)]_vars

\* an update of a unique index has given each of two documents the value of
\* the other
C30_Witness ==
  /\ call.op = "Index.update" /\ call.ok
  /\ indexes[1].unique
  /\ Len(call.pairs) = 2
  /\ call.pairs[1].oldDoc.a # call.pairs[2].oldDoc.a
  /\ call.pairs[1].oldDoc.a # Undef /\ call.pairs[2].oldDoc.a # Undef
  /\ KeysOfDoc(indexes[1], call.pairs[1].oldDoc) # {}
  /\ KeysOfDoc(indexes[1], call.pairs[2].oldDoc) # {}
  /\ call.pairs[1].newDoc.a = call.pairs[2].oldDoc.a
  /\ call.pairs[2].newDoc.a = call.pairs[1].oldDoc.a

\* ---- TTL indexes, checked under TtlSpec

\* C29: every field name registered in ttlIndexes has an index in the store
C29_TtlFieldsAreIndexed ==
  \A f \in DOMAIN ttlIndexes : HasIndex(indexes, f)

\* a getCandidates call has removed a document because of the date in a
\* field that is registered in ttlIndexes and has no index
C29_Witness ==
  /\ call.op = "getCandidates"
  /\ call.removed # <<>>
  /\ "a" \in DOMAIN ttlIndexes
  /\ ~HasIndex(indexes, "a")

\* C28: an ensureIndex that fails with a missing fieldName, or with a unique
\* violation among the stored documents, leaves the set of indexes and the
\* content of every index as before the call, and its callback gets the error
C28_FailedEnsureIndexLeavesIndexes ==
  [][(indexCalls' # indexCalls /\ call'.op = "ensureIndex")
       => /\ call'.fieldName = ""
               => call'.err = "missingFieldName" /\ indexes' = indexes
          /\ (/\ call'.fieldName = "a" /\ call'.unique
              /\ ~HasIndex(indexes, "a") /\ HasIndex(indexes, "_id")
              /\ ~NoDuplicateKey(NewIndex("a", TRUE, call'.sparse),
                                 Range(getAllData(indexes).docs)))
               => call'.err = "uniqueViolated" /\ indexes' = indexes
          /\ call'.err \in {"missingFieldName", "uniqueViolated"} => indexes' = indexes]_vars

\* an ensureIndex with unique failed on two stored documents with the same date
C28_Witness ==
  /\ call.op = "ensureIndex" /\ call.err = "uniqueViolated"
  /\ Cardinality(DocsOf(indexes)) = 2
  /\ \A i \in 1 .. Len(indexes) : indexes[i].fieldName = "_id"

\* C27: getCandidates with dontExpireStaleDocs false passes on the candidates
\* that are not expired and no other, every expired candidate is in no index
\* afterwards, and for every expired candidate one task was put on the
\* executor's queue
ExpiredCandidates(ixs, ttl, query, now) ==
  SelectSeq(getCandidates(ixs, query).docs, LAMBDA d : expired(ttl, d, now))
C27_ExpiredRemovedByTasks ==
  [][(/\ mutations' # mutations /\ call'.op = "getCandidates"
      /\ ~call'.dontExpireStaleDocs
      /\ getCandidates(indexes, call'.query).ok)
       => /\ call'.docs = SelectSeq(getCandidates(indexes, call'.query).docs,
                                    LAMBDA d : ~expired(ttlIndexes, d, call'.now))
          /\ \A d \in Range(ExpiredCandidates(indexes, ttlIndexes, call'.query, call'.now)) :
               HeldNowhere(indexes', d)
          /\ Len(enqLog') =
               Len(enqLog) + Len(ExpiredCandidates(indexes, ttlIndexes, call'.query, call'.now))]_vars

\* getCandidates has passed on one of two candidates and removed the other,
\* which was expired
C27_Witness ==
  /\ call.op = "getCandidates" /\ ~call.dontExpireStaleDocs /\ call.err = "none"
  /\ Len(call.docs) = 1 /\ Len(call.removed) = 1
  /\ HeldNowhere(indexes, call.removed[1])
  /\ enqLog = <<>>

\* ---- the objects handed in and out, checked under KeptSpec

\* C22: no object the client passed to insert or got back from insert, find,
\* findOne or update is an object the indexes hold, and when the client
\* changes such an object the indexes, and with them what any find returns,
\* stay as they are
C22_NoSharedObjects ==
  /\ [](call.op # "none"
          => (RefsOf(call.passed) \cup RefsOf(call.returned))
               \cap {d.ref : d \in DocsOf(indexes)} = {})
  /\ [][(mutations' = mutations /\ call' # call)
          => /\ indexes' = indexes
             /\ \A query \in KeptQueries :
                  execBody(indexes', query).news = execBody(indexes, query).news]_vars

\* the client has changed a document it got back from find, and the stored
\* document with the same _id still has its value
C22_Witness ==
  /\ call.op = "find" /\ call.changes = 1
  /\ \E i \in 1 .. Len(call.returned) :
       \E d \in DocsOf(indexes) :
         d._id = call.returned[i]._id /\ d.a # call.returned[i].a

\* ---- the queue under task errors, checked under LiveSpec

\* the ids of the tasks of one run
TaskIds == 1 .. (MaxMutations + MaxFinds)

\* C24: a task that was started is in the end marked complete, whether its
\* operation ended with an error or not, and so every task that entered the
\* queue is started in the end
C24_QueueDrains ==
  /\ \A id \in TaskIds : (id \in Range(startLog)) ~> (id \in Range(doneLog))
  /\ \A id \in TaskIds : (id \in Range(Ids(enqLog))) ~> (id \in Range(startLog))

\* an insert whose persistNewState answered with an error was marked
\* complete, and the find queued behind it was started
C24_Witness ==
  /\ Len(doneLog) = 1 /\ Len(startLog) = 2
  /\ \E r \in running : r.op = "find" /\ r.id = startLog[2]
  /\ DocsOf(indexes) # {}
  /\ live = {}


\* ---- ensureIndex on an indexed field, checked under TtlSpec

\* C31: ensureIndex on a field name that has an index reports success and
\* leaves the indexes, with their options and content, and ttlIndexes as they
\* are, whatever its options; and after any ensureIndex a second call with
\* the same options would leave the indexes and ttlIndexes as the first left
\* them
C31_EnsureIndexTwice ==
  [][(indexCalls' # indexCalls /\ call'.op = "ensureIndex")
       => /\ HasIndex(indexes, call'.fieldName)
               => /\ call'.err = "none"
                  /\ indexes' = indexes
                  /\ ttlIndexes' = ttlIndexes
          /\ ensureIndexBody(indexes', call'.fieldName, call'.unique, call'.sparse) = indexes'
          /\ ensureIndexTtl(indexes', ttlIndexes', call'.fieldName, call'.expireAfterSeconds)
               = ttlIndexes']_vars

\* ensureIndex was called on the indexed field a with another unique option
\* and with expireAfterSeconds: the index has its option, a is not registered
C31_Witness ==
  /\ call.op = "ensureIndex" /\ call.fieldName = "a" /\ call.err = "none"
  /\ HasIndex(indexes, "a")
  /\ IndexAt(indexes, "a").unique # call.unique
  /\ call.expireAfterSeconds # NotSet
  /\ "a" \notin DOMAIN ttlIndexes
  /\ DocsOf(indexes) # {}

====
